---- MODULE Spec2Model ----
(***************************************************************************)
(* The batch-sync endpoint of the YouTube tracker backend                  *)
(* (packages/backend/app/api/routes/sync.py, sync_all) with the payload    *)
(* validation of app/api/deps.py and the tables of app/models/domain.py    *)
(* and alembic/versions.                                                   *)
(*                                                                         *)
(* A table is a bag (multiset) of rows.  The surrogate primary keys (uuid4 *)
(* and autoincrement ids) carry no information and are the multiplicity of *)
(* a row in its bag; the columns of a row are a representative subset of   *)
(* the columns of the table.  Optional (nullable) values are <<>> for None *)
(* and <<v>> for a value v.  Text that the code inspects character by      *)
(* character (the date keys of dailyStats, urls, titles) is a sequence of  *)
(* one-character strings.  Epoch milliseconds are scaled down: MaxTimeMs   *)
(* stands for the largest millisecond count datetime can represent.        *)
(*                                                                         *)
(* The session factory (app/db/session.py) is not part of the sources at   *)
(* hand: the session is taken to be SQLAlchemy's default AsyncSession      *)
(* (autoflush on, so a statement of a request sees the rows the request    *)
(* has added) on PostgreSQL's default isolation level, READ COMMITTED.     *)
(*                                                                         *)
(* store is the committed database; last is the request handled last with  *)
(* its response; ncalls counts the requests received; txs holds the        *)
(* requests in flight when requests overlap; read is the response of the   *)
(* read of a day's statistics handled last.                                *)
(***************************************************************************)
EXTENDS Integers, Sequences, FiniteSets, Bags, TLC

VARIABLES store, last, ncalls, txs, read

vars == <<store, last, ncalls, txs, read>>

\* ------------------------------------------------------------------ bounds

\* Number of requests in one behaviour.
MaxCalls == 2

\* Largest number of items in one batch of the small-batch specifications.
MaxItems == 2

\* Largest epoch millisecond that datetime.fromtimestamp converts (scaled).
MaxTimeMs == 2

\* ------------------------------------------------------- program constants

max_video_sessions_per_sync == 200

max_events_per_sync == 1000

\* ------------------------------------------------------------ value domains

\* X-User-Id / Google ids of the clients; User.id is identified with it.
Users == {"u1", "u2"}

\* Client-generated external ids.
ExtIds == {"a", "b"}

None == <<>>

Some(v) == <<v>>

\* The keys in an order that takes the bookmarks before the sessions.
SyncKeys_urls_first ==
  <<"productiveUrls", "videoSessions", "browserSessions", "dailyStats",
    "scrollEvents", "thumbnailEvents", "pageEvents", "videoWatchEvents",
    "recommendationEvents", "interventionEvents", "moodReports">>

\* The eleven keys of SyncData, in declaration order.
SyncKeys ==
  <<"videoSessions", "browserSessions", "dailyStats", "scrollEvents",
    "thumbnailEvents", "pageEvents", "videoWatchEvents",
    "recommendationEvents", "interventionEvents", "moodReports",
    "productiveUrls">>

SyncKeySet == {SyncKeys[i] : i \in 1..Len(SyncKeys)}

\* The five granular collections whose items carry a `timestamp` only.
PlainEventKeys ==
  {"scrollEvents", "thumbnailEvents", "pageEvents", "videoWatchEvents",
   "recommendationEvents"}

\* __tablename__ of the model each collection is stored in.
TableOf ==
  [k \in SyncKeySet |->
     CASE k = "videoSessions" -> "video_sessions"
       [] k = "browserSessions" -> "browser_sessions"
       [] k = "dailyStats" -> "daily_stats"
       [] k = "scrollEvents" -> "scroll_events"
       [] k = "thumbnailEvents" -> "thumbnail_events"
       [] k = "pageEvents" -> "page_events"
       [] k = "videoWatchEvents" -> "video_watch_events"
       [] k = "recommendationEvents" -> "recommendation_events"
       [] k = "interventionEvents" -> "intervention_events"
       [] k = "moodReports" -> "mood_reports"
       [] OTHER -> "productive_urls"]

\* The child tables with a user_id foreign key.
ChildTables == {TableOf[k] : k \in SyncKeySet}

\* A request body with every collection at its default (empty).
SyncData ==
  [videoSessions |-> <<>>, browserSessions |-> <<>>, dailyStats |-> <<>>,
   scrollEvents |-> <<>>, thumbnailEvents |-> <<>>, pageEvents |-> <<>>,
   videoWatchEvents |-> <<>>, recommendationEvents |-> <<>>,
   interventionEvents |-> <<>>, moodReports |-> <<>>,
   productiveUrls |-> <<>>]

\* ------------------------------------------------------------ bag helpers

\* The rows of bag `table` that are in set `rows`, with their multiplicity.
Restrict(table, rows) == [r \in rows \cap DOMAIN table |-> table[r]]

\* session.add(row) followed by the flush that sends the INSERT.
add(table, row) == table (+) SetToBag({row})

\* Number of rows of a table.
RowCount(table) == BagCardinality(table)

\* A result read with .scalars().first(): the first row, however many match.
scalars_first(result) ==
  IF RowCount(result) = 0 THEN [exc |-> "none", row |-> None]
  ELSE [exc |-> "none", row |-> Some(CHOOSE r \in DOMAIN result : TRUE)]

\* Result.scalar_one_or_none(): None, the single row, or MultipleResultsFound.
scalar_one_or_none(result) ==
  IF RowCount(result) = 0 THEN [exc |-> "none", row |-> None]
  ELSE IF RowCount(result) = 1
       THEN [exc |-> "none", row |-> Some(CHOOSE r \in DOMAIN result : TRUE)]
       ELSE [exc |-> "MultipleResultsFound", row |-> None]

\* --------------------------------------------------------------- conversions

\* Whether datetime.fromtimestamp(ms / 1000) returns (a year in 1..9999).
fromtimestamp_ok(ms) == ms >= -MaxTimeMs /\ ms <= MaxTimeMs

\* datetime.fromtimestamp(ms / 1000): the time, in microseconds.
fromtimestamp(ms) == [us |-> ms * 1000]

\* `fromtimestamp(x / 1000) if x else None`: None and 0 are falsy.
opt_time_ok(x) == x = None \/ x[1] = 0 \/ fromtimestamp_ok(x[1])

\* `fromtimestamp(x / 1000) if x is not None else None`: 0 is the epoch.
opt_time_is_not_none(x) == IF x = None THEN None ELSE Some(fromtimestamp(x[1]))

opt_time(x) == IF x = None \/ x[1] = 0 THEN None ELSE Some(fromtimestamp(x[1]))

Digits == {"0", "1", "2", "3", "4", "5", "6", "7", "8", "9"}

DigitVal ==
  [c \in Digits |->
     CASE c = "0" -> 0 [] c = "1" -> 1 [] c = "2" -> 2 [] c = "3" -> 3
       [] c = "4" -> 4 [] c = "5" -> 5 [] c = "6" -> 6 [] c = "7" -> 7
       [] c = "8" -> 8 [] OTHER -> 9]

\* The character of a decimal digit.
DigitChar(d) == <<"0", "1", "2", "3", "4", "5", "6", "7", "8", "9">>[d + 1]

IsLeap(y) == (y % 4 = 0 /\ y % 100 # 0) \/ y % 400 = 0

DaysInMonth(y, m) ==
  IF m = 2 THEN (IF IsLeap(y) THEN 29 ELSE 28)
  ELSE IF m \in {4, 6, 9, 11} THEN 30 ELSE 31

\* date.fromisoformat(date_str) for the YYYY-MM-DD form: ok = FALSE is the
\* ValueError.
fromisoformat(date_str) ==
  IF /\ Len(date_str) = 10
     /\ date_str[5] = "-" /\ date_str[8] = "-"
     /\ \A i \in {1, 2, 3, 4, 6, 7, 9, 10} : date_str[i] \in Digits
  THEN LET y == 1000 * DigitVal[date_str[1]] + 100 * DigitVal[date_str[2]]
                + 10 * DigitVal[date_str[3]] + DigitVal[date_str[4]]
           m == 10 * DigitVal[date_str[6]] + DigitVal[date_str[7]]
           d == 10 * DigitVal[date_str[9]] + DigitVal[date_str[10]]
       IN IF y >= 1 /\ m >= 1 /\ m <= 12 /\ d >= 1 /\ d <= DaysInMonth(y, m)
          THEN [ok |-> TRUE, date |-> [year |-> y, month |-> m, day |-> d]]
          ELSE [ok |-> FALSE, date |-> None]
  ELSE [ok |-> FALSE, date |-> None]

\* Days of the months of year y before month m.
RECURSIVE days_before_month(_, _)
days_before_month(y, m) ==
  IF m = 1 THEN 0 ELSE days_before_month(y, m - 1) + DaysInMonth(y, m - 1)

\* date.toordinal(): the number of the day d, counted from 1 January of
\* year 1.
toordinal(d) ==
  LET y == d.year - 1
  IN y * 365 + y \div 4 - y \div 100 + y \div 400
     + days_before_month(d.year, d.month) + d.day

\* timestamp >= d for a DateTime column and a date, which compares as the
\* midnight of its day: the day of the timestamp, counted from 1 January
\* 1970, is not before the day d.
timestamp_ge(timestamp, d) ==
  (timestamp.us \div 1000000) \div 86400
    >= toordinal(d) - toordinal([year |-> 1970, month |-> 1, day |-> 1])

\* A stored time as a datetime: the day counted from 1 January 1970, the
\* second of the day and the microsecond of the second.
datetime(t) ==
  [day |-> (t.us \div 1000000) \div 86400,
   second |-> (t.us \div 1000000) % 86400,
   microsecond |-> t.us % 1000000]

\* a >= b on datetimes.
datetime_ge(a, b) ==
  \/ a.day > b.day
  \/ a.day = b.day /\ a.second > b.second
  \/ a.day = b.day /\ a.second = b.second /\ a.microsecond >= b.microsecond

\* now - timedelta(days=days)
datetime_sub(now, days) == [now EXCEPT !.day = now.day - days]

\* ------------------------------------------------------------------ rows

\* VideoSession(...) as sync_all constructs it.
VideoSession(user, session_data) ==
  [user_id |-> user,
   ext_session_id |-> session_data.id,
   title |-> session_data.title,
   channel |-> session_data.channel,
   watched_seconds |-> session_data.watchedSeconds,
   rated_at |-> opt_time(session_data.ratedAt),
   started_at |-> fromtimestamp(session_data.startedAt),
   ended_at |-> opt_time(session_data.endedAt),
   timestamp |-> fromtimestamp(session_data.timestamp)]

\* BrowserSession(...) as sync_all constructs it.
BrowserSession(user, bs_data) ==
  [user_id |-> user,
   ext_session_id |-> bs_data.id,
   started_at |-> fromtimestamp(bs_data.startedAt),
   ended_at |-> opt_time(bs_data.endedAt),
   entry_url |-> bs_data.entryUrl,
   total_duration_seconds |-> bs_data.totalDurationSeconds]

\* The values(...) of the DailyStats insert; updated_at is the column default.
DailyStats(user, stats_date, stats_data, now) ==
  [user_id |-> user,
   date |-> stats_date,
   total_seconds |-> stats_data.totalSeconds,
   video_count |-> stats_data.videoCount,
   updated_at |-> now]

\* ScrollEvent, ThumbnailEvent, PageEvent, VideoWatchEvent, RecommendationEvent.
PlainEvent(user, event) ==
  [user_id |-> user,
   session_id |-> event.sessionId,
   timestamp |-> fromtimestamp(event.timestamp)]

InterventionEvent(user, event) ==
  [user_id |-> user,
   session_id |-> event.sessionId,
   intervention_type |-> event.interventionType,
   triggered_at |-> fromtimestamp(event.triggeredAt),
   response |-> event.response,
   response_at |-> opt_time(event.responseAt),
   response_time_ms |-> event.responseTimeMs,
   user_left_youtube |-> event.userLeftYoutube]

MoodReport(user, report) ==
  [user_id |-> user,
   session_id |-> report.sessionId,
   timestamp |-> fromtimestamp(report.timestamp),
   report_type |-> report.reportType,
   mood |-> report.mood,
   intention |-> report.intention,
   satisfaction |-> report.satisfaction]

ProductiveUrl(user, url_data) ==
  [user_id |-> user,
   ext_id |-> url_data.id,
   url |-> url_data.url,
   title |-> url_data.title,
   added_at |-> fromtimestamp(url_data.addedAt),
   times_suggested |-> 0,
   times_clicked |-> 0,
   deleted_at |-> None]

\* ------------------------------------------------------------- the store

\* The empty database: no users, every child table empty.
EmptyStore ==
  [users |-> {},
   video_sessions |-> EmptyBag,
   browser_sessions |-> EmptyBag,
   daily_stats |-> EmptyBag,
   scroll_events |-> EmptyBag,
   thumbnail_events |-> EmptyBag,
   page_events |-> EmptyBag,
   video_watch_events |-> EmptyBag,
   recommendation_events |-> EmptyBag,
   intervention_events |-> EmptyBag,
   mood_reports |-> EmptyBag,
   productive_urls |-> EmptyBag]

\* A productive_urls table without the unique constraint.
no_uq_productive_url_user_ext(table, row) == FALSE

\* Whether `row` breaks uq_productive_url_user_ext, the unique constraint on
\* productive_urls (user_id, ext_id), against the rows of `table`.
uq_productive_url_user_ext(table, row) ==
  \E r \in DOMAIN table : r.user_id = row.user_id /\ r.ext_id = row.ext_id

\* Whether inserting `row` into `table` of `db` breaks a unique constraint or
\* primary key: browser_sessions.ext_session_id, daily_stats (user_id, date),
\* productive_urls (user_id, ext_id).  video_sessions and the event tables
\* have none beside the surrogate id.
unique_violation(db, table, row) ==
  CASE table = "browser_sessions" ->
         \E r \in DOMAIN db.browser_sessions :
            r.ext_session_id = row.ext_session_id
    [] table = "daily_stats" ->
         \E r \in DOMAIN db.daily_stats :
            r.user_id = row.user_id /\ r.date = row.date
    [] table = "productive_urls" ->
         uq_productive_url_user_ext(db.productive_urls, row)
    [] OTHER -> FALSE

\* ------------------------------------------------- the session of a request

\* The state of one request inside the try block: the database as the
\* session sees it (committed rows and its own flushed writes), counts,
\* errors, the server clock (datetime.utcnow()), the exception that left the
\* block ("none" while inside), and, as a history of the run, the stored rows
\* that the request's upserts have overwritten.
NewSession(db, now) ==
  [db |-> db,
   now |-> now,
   counts |-> [k \in SyncKeySet |-> 0],
   errors |-> <<>>,
   overwritten |-> {},
   exc |-> "none"]

\* An exception that is recorded in `errors` while the loop goes on.
raise_as_soft_error(s, e) == [s EXCEPT !.errors = Append(@, <<e>>)]

raise(s, e) == [s EXCEPT !.exc = e]

\* db.add(row) to `table`, counted under `key`, and the autoflush that sends
\* the INSERT before the next statement of the request; the INSERT fails
\* with IntegrityError when it breaks a unique constraint.
db_add(s, key, row) ==
  IF unique_violation(s.db, TableOf[key], row)
  THEN raise(s, "IntegrityError")
  ELSE [s EXCEPT !.db[TableOf[key]] = add(@, row), !.counts[key] = @ + 1]

\* ------------------------------------------------ sync_all, collection by
\* ------------------------------------------------ collection

\* A lookup that compares the external id with another column and so never
\* finds the stored session.
select_VideoSession_wrong_column(db, user, id) ==
  Restrict(db.video_sessions,
           {r \in DOMAIN db.video_sessions :
              r.user_id = user /\ r.ext_session_id = user})

\* select(VideoSession).where(user_id == user.id, ext_session_id == id)
select_VideoSession(db, user, id) ==
  Restrict(db.video_sessions,
           {r \in DOMAIN db.video_sessions :
              r.user_id = user /\ r.ext_session_id = id})

\* An iteration that overwrites the stored session instead of skipping it.
sync_video_session_overwrite(s, user, session_data) ==
  LET existing == scalar_one_or_none(select_VideoSession(s.db, user, session_data.id))
  IN IF existing.exc # "none" THEN raise(s, existing.exc)
     ELSE IF existing.row # None
          THEN [s EXCEPT !.db.video_sessions =
                           add(@ (-) SetToBag({existing.row[1]}),
                               VideoSession(user, session_data))]
          ELSE db_add(s, "videoSessions", VideoSession(user, session_data))

\* One iteration of `for session_data in data.videoSessions`.
sync_video_session(s, user, session_data) ==
  LET existing == scalar_one_or_none(select_VideoSession(s.db, user, session_data.id))
  IN IF existing.exc # "none" THEN raise(s, existing.exc)
     ELSE IF existing.row # None THEN s
     ELSE IF ~(/\ opt_time_ok(session_data.ratedAt)
               /\ fromtimestamp_ok(session_data.startedAt)
               /\ opt_time_ok(session_data.endedAt)
               /\ fromtimestamp_ok(session_data.timestamp))
          THEN raise(s, "ValueError")
          ELSE db_add(s, "videoSessions", VideoSession(user, session_data))

\* select(BrowserSession).where(ext_session_id == id): no user filter.
select_BrowserSession(db, user, id) ==
  Restrict(db.browser_sessions,
           {r \in DOMAIN db.browser_sessions : r.ext_session_id = id})

\* One iteration of `for bs_data in data.browserSessions`.
sync_browser_session(s, user, bs_data) ==
  LET existing == scalar_one_or_none(select_BrowserSession(s.db, user, bs_data.id))
  IN IF existing.exc # "none" THEN raise(s, existing.exc)
     ELSE IF existing.row # None THEN s
     ELSE IF ~(fromtimestamp_ok(bs_data.startedAt) /\ opt_time_ok(bs_data.endedAt))
          THEN raise(s, "ValueError")
          ELSE db_add(s, "browserSessions", BrowserSession(user, bs_data))

\* A set_ that leaves video_count out.
set_without_video_count == {"total_seconds", "updated_at"}

\* The columns of on_conflict_do_update's set_.
set_ == {"total_seconds", "video_count", "updated_at"}

\* An insert without the ON CONFLICT clause and without the primary key.
insert_without_on_conflict(table, row) == add(table, row)

\* An upsert whose conflict target is the date alone.
on_conflict_on_date(table, row) ==
  LET hit == {r \in DOMAIN table : r.date = row.date}
  IN IF hit = {} THEN add(table, row)
     ELSE LET old == CHOOSE r \in hit : TRUE
              new == [c \in DOMAIN old |-> IF c \in set_ THEN row[c] ELSE old[c]]
          IN add(table (-) SetToBag({old}), new)

\* insert(DailyStats).values(row).on_conflict_do_update(
\*   index_elements=["user_id", "date"], set_=...): the conflicting row takes
\* the set_ columns of `row` (EXCLUDED), a new key is inserted.
on_conflict_do_update(table, row) ==
  LET hit == {r \in DOMAIN table : r.user_id = row.user_id /\ r.date = row.date}
  IN IF hit = {} THEN add(table, row)
     ELSE LET old == CHOOSE r \in hit : TRUE
              new == [c \in DOMAIN old |-> IF c \in set_ THEN row[c] ELSE old[c]]
          IN add(table (-) SetToBag({old}), new)

\* The rows of daily_stats that an upsert of `row` conflicts with.
conflicting(table, row) ==
  {r \in DOMAIN table : r.user_id = row.user_id /\ r.date = row.date}

\* An iteration that lets the ValueError of an unparsable key leave the loop.
sync_daily_stats_abort(s, user, entry) ==
  LET parsed == fromisoformat(entry.date_str)
  IN IF ~parsed.ok THEN raise(s, "ValueError")
     ELSE LET row == DailyStats(user, parsed.date, entry.stats_data, s.now)
          IN [s EXCEPT
                !.db.daily_stats = on_conflict_do_update(@, row),
                !.overwritten = @ \cup conflicting(s.db.daily_stats, row),
                !.counts["dailyStats"] = @ + 1]

\* One iteration of `for date_str, stats_data in data.dailyStats.items()`.
sync_daily_stats(s, user, entry) ==
  LET parsed == fromisoformat(entry.date_str)
  IN IF ~parsed.ok
     THEN [s EXCEPT !.errors = Append(@, <<"Invalid date format", entry.date_str>>)]
     ELSE LET row == DailyStats(user, parsed.date, entry.stats_data, s.now)
          IN [s EXCEPT
                !.db.daily_stats = on_conflict_do_update(@, row),
                !.overwritten = @ \cup conflicting(s.db.daily_stats, row),
                !.counts["dailyStats"] = @ + 1]

\* An iteration that skips an event whose row is already stored.
sync_plain_event_dedup(s, user, key, event) ==
  IF ~fromtimestamp_ok(event.timestamp) THEN raise(s, "ValueError")
  ELSE IF PlainEvent(user, event) \in DOMAIN s.db[TableOf[key]] THEN s
  ELSE db_add(s, key, PlainEvent(user, event))

\* One iteration of the scroll, thumbnail, page, video watch and
\* recommendation loops: an unconditional insert.
sync_plain_event(s, user, key, event) ==
  IF ~fromtimestamp_ok(event.timestamp) THEN raise(s, "ValueError")
  ELSE db_add(s, key, PlainEvent(user, event))

\* One iteration of `for event in data.interventionEvents`.
sync_intervention_event(s, user, event) ==
  IF ~(fromtimestamp_ok(event.triggeredAt) /\ opt_time_ok(event.responseAt))
  THEN raise(s, "ValueError")
  ELSE db_add(s, "interventionEvents", InterventionEvent(user, event))

\* One iteration of `for report in data.moodReports`.
sync_mood_report(s, user, report) ==
  IF ~fromtimestamp_ok(report.timestamp) THEN raise(s, "ValueError")
  ELSE db_add(s, "moodReports", MoodReport(user, report))

\* A lookup ordered the other way round: a soft-deleted row comes first.
select_ProductiveUrl_deleted_first(db, user, id) ==
  LET hit == {r \in DOMAIN db.productive_urls : r.user_id = user /\ r.ext_id = id}
      dead == {r \in hit : r.deleted_at # None}
  IN IF hit = {} THEN EmptyBag
     ELSE SetToBag({CHOOSE r \in (IF dead # {} THEN dead ELSE hit) : TRUE})

\* select(ProductiveUrl).where(user_id == user.id, ext_id == id)
\*   .order_by(deleted_at.is_(None).desc()).limit(1)
select_ProductiveUrl(db, user, id) ==
  LET hit == {r \in DOMAIN db.productive_urls : r.user_id = user /\ r.ext_id = id}
      live == {r \in hit : r.deleted_at = None}
  IN IF hit = {} THEN EmptyBag
     ELSE SetToBag({CHOOSE r \in (IF live # {} THEN live ELSE hit) : TRUE})

\* Assignments that leave deleted_at as it is.
restore_keeps_deleted_at(existing_url, url_data) ==
  [existing_url EXCEPT !.url = url_data.url, !.title = url_data.title]

\* A restore that replaces the found row by a row built from the item, as the
\* insert branch builds it.
restore_as_new_row(existing_url, url_data) ==
  ProductiveUrl(existing_url.user_id, url_data)

\* The assignments to existing_url.
restore_ProductiveUrl(existing_url, url_data) ==
  [existing_url EXCEPT !.url = url_data.url,
                       !.title = url_data.title,
                       !.deleted_at = None]

\* One iteration of `for url_data in data.productiveUrls`.
sync_productive_url(s, user, url_data) ==
  LET existing == scalar_one_or_none(select_ProductiveUrl(s.db, user, url_data.id))
  IN IF existing.exc # "none" THEN raise(s, existing.exc)
     ELSE IF existing.row # None
          THEN [s EXCEPT
                  !.db.productive_urls =
                     add(@ (-) SetToBag({existing.row[1]}),
                         restore_ProductiveUrl(existing.row[1], url_data)),
                  !.overwritten = @ \cup {existing.row[1]},
                  !.counts["productiveUrls"] = @ + 1]
          ELSE IF ~fromtimestamp_ok(url_data.addedAt) THEN raise(s, "ValueError")
               ELSE db_add(s, "productiveUrls", ProductiveUrl(user, url_data))

\* One iteration of the loop over collection `key`.
sync_item(s, user, key, item) ==
  CASE key = "videoSessions" -> sync_video_session(s, user, item)
    [] key = "browserSessions" -> sync_browser_session(s, user, item)
    [] key = "dailyStats" -> sync_daily_stats(s, user, item)
    [] key = "interventionEvents" -> sync_intervention_event(s, user, item)
    [] key = "moodReports" -> sync_mood_report(s, user, item)
    [] key = "productiveUrls" -> sync_productive_url(s, user, item)
    [] OTHER -> sync_plain_event(s, user, key, item)

\* The iterations of `for item in items` for items[lo] to items[hi], in
\* order (the first half, then the second): an exception leaves the loop.
RECURSIVE sync_range(_, _, _, _, _, _)
sync_range(s, user, key, items, lo, hi) ==
  IF lo > hi \/ s.exc # "none" THEN s
  ELSE IF lo = hi THEN sync_item(s, user, key, items[lo])
  ELSE LET mid == (lo + hi) \div 2
           half == sync_range(s, user, key, items, lo, mid)
       IN sync_range(half, user, key, items, mid + 1, hi)

\* `for item in items`.
sync_items(s, user, key, items) == sync_range(s, user, key, items, 1, Len(items))

\* The loops of the try block from collection SyncKeys[i] on, in source order.
RECURSIVE sync_collections(_, _, _, _)
sync_collections(s, user, data, i) ==
  IF i > Len(SyncKeys) \/ s.exc # "none" THEN s
  ELSE sync_collections(sync_items(s, user, SyncKeys[i], data[SyncKeys[i]]),
                        user, data, i + 1)

\* ----------------------------------------------------- payload validation

\* The keys of `limits`, in the order of the dict literal.
LimitKeys ==
  <<"videoSessions", "browserSessions", "scrollEvents", "thumbnailEvents",
    "pageEvents", "videoWatchEvents", "recommendationEvents",
    "interventionEvents", "moodReports", "productiveUrls">>

limits ==
  [k \in {LimitKeys[i] : i \in 1..Len(LimitKeys)} |->
     CASE k = "videoSessions" -> max_video_sessions_per_sync
       [] k \in {"browserSessions", "productiveUrls"} -> 100
       [] OTHER -> max_events_per_sync]

\* A comparison that also rejects a collection of exactly the limit.
exceeds_limit_inclusive(data, key) == Len(data[key]) >= limits[key]

\* Whether collection `key` of `data` adds an entry to `errors`.
exceeds_limit(data, key) == Len(data[key]) > limits[key]

\* The `errors` list that validate_sync_payload builds from LimitKeys[i] on:
\* one entry (key, len(items), limit) per collection over its limit.
RECURSIVE limit_errors(_, _)
limit_errors(data, i) ==
  IF i > Len(LimitKeys) THEN <<>>
  ELSE LET key == LimitKeys[i]
       IN (IF exceeds_limit(data, key)
           THEN <<[key |-> key, len |-> Len(data[key]), limit |-> limits[key]]>>
           ELSE <<>>)
          \o limit_errors(data, i + 1)

\* validate_sync_payload(data): the HTTPException it raises, or "none".
validate_sync_payload(data) ==
  LET errors == limit_errors(data, 1)
  IN IF errors # <<>>
     THEN [exc |-> "HTTPException", status_code |-> 413,
           detail |-> [msg |-> "Payload too large", items |-> errors]]
     ELSE [exc |-> "none", status_code |-> 0,
           detail |-> [msg |-> "", items |-> <<>>]]

\* ------------------------------------------- validation of the body

\* The characters of the model for which str.isprintable() is False: form
\* feed, newline, carriage return and tab.
NotPrintable == {"\f", "\n", "\r", "\t"}

\* sanitize_string(value, max_length) of deps.py, which no endpoint calls:
\* the characters that are printable or one of \n, \r, \t, cut to max_length.
sanitize_string(value, max) ==
  IF value = None THEN None
  ELSE LET cleaned == SelectSeq(value[1],
                                LAMBDA c : c \notin NotPrintable
                                           \/ c \in {"\n", "\r", "\t"})
       IN Some(SubSeq(cleaned, 1, IF Len(cleaned) < max THEN Len(cleaned) ELSE max))


\* Field(max_length=...) of VideoSessionCreate.title and ProductiveUrlCreate.url.
title_max_length == 500

url_max_length == 2000

\* v.startswith(prefix)
startswith(v, prefix) ==
  Len(v) >= Len(prefix) /\ SubSeq(v, 1, Len(prefix)) = prefix

\* ProductiveUrlCreate.validate_url: FALSE is the ValueError.
validate_url(v) ==
  \/ startswith(v, <<"h", "t", "t", "p", ":", "/", "/">>)
  \/ startswith(v, <<"h", "t", "t", "p", "s", ":", "/", "/">>)

\* sanitize_url(value) of deps.py, which no endpoint calls: None for None;
\* otherwise the value cleaned by sanitize_string and cut to 2000 characters,
\* replaced by None when it is truthy (not empty) and starts with neither
\* scheme. An empty cleaned value is falsy and is returned as it is.
sanitize_url(value) ==
  IF value = None THEN None
  ELSE LET url == sanitize_string(value, 2000)
       IN IF url[1] # <<>> /\ ~validate_url(url[1]) THEN None ELSE url

\* The error of item i of data.videoSessions, or "" for a valid item: title
\* must not be longer than max_length.
VideoSessionCreate_error(item) ==
  IF item.title # None /\ Len(item.title[1]) > title_max_length
  THEN "string_too_long" ELSE ""

\* The error of an item of data.productiveUrls: the length of url is checked
\* first, then the validator runs.
ProductiveUrlCreate_error(item) ==
  IF Len(item.url) > url_max_length THEN "string_too_long"
  ELSE IF ~validate_url(item.url) THEN "value_error"
  ELSE ""

\* The errors of the items of collection `key`, in order.
item_errors(key, items) ==
  LET error(item) ==
        CASE key = "videoSessions" -> VideoSessionCreate_error(item)
          [] key = "productiveUrls" -> ProductiveUrlCreate_error(item)
          [] OTHER -> ""
  IN SelectSeq([i \in 1..Len(items) |->
                  [key |-> key, index |-> i - 1, type |-> error(items[i])]],
               LAMBDA e : e.type # "")

\* The errors that the validation of body.data against SyncData collects,
\* from collection SyncKeys[i] on.
RECURSIVE validation_errors(_, _)
validation_errors(data, i) ==
  IF i > Len(SyncKeys) THEN <<>>
  ELSE item_errors(SyncKeys[i], data[SyncKeys[i]]) \o validation_errors(data, i + 1)

\* The RequestValidationError of a body, or "none".
request_validation(data) ==
  LET errors == validation_errors(data, 1)
  IN IF errors # <<>>
     THEN [exc |-> "RequestValidationError", status_code |-> 422,
           detail |-> [msg |-> "Unprocessable Entity", items |-> errors]]
     ELSE [exc |-> "none", status_code |-> 0,
           detail |-> [msg |-> "", items |-> <<>>]]

\* ------------------------------------------------------------ the endpoint

\* get_current_user: the User row is looked up by device id and, when absent,
\* added and committed before the handler body runs.
get_current_user(db, device_id) == [db EXCEPT !.users = @ \cup {device_id}]

\* A rollback that keeps what the session had flushed.
rollback_keeps_flushed(committed, s) == s.db

\* What `except Exception` leaves: db.rollback() discards the session's
\* writes, the committed database stays.
rollback(committed, s) == committed

\* db.commit(): the session's writes become the committed database.
commit(committed, s) == s.db

NoResponse ==
  [status_code |-> 0, success |-> FALSE, syncedCounts |-> None,
   errors |-> <<>>, detail |-> [msg |-> "", items |-> <<>>]]

\* What `last` records of a request: who sent what, the response, and the
\* stored rows its committed upserts overwrote.
Handled(device_id, data, resp, overwritten) ==
  [user |-> device_id, data |-> data, resp |-> resp, overwritten |-> overwritten]

SyncResponse(s) ==
  [status_code |-> 200, success |-> TRUE, syncedCounts |-> s.counts,
   errors |-> s.errors, detail |-> [msg |-> "", items |-> <<>>]]

\* HTTPException(status_code=500, detail=f"Sync failed: {str(e)}")
SyncFailed(s) ==
  [status_code |-> 500, success |-> FALSE, syncedCounts |-> None,
   errors |-> <<>>, detail |-> [msg |-> "Sync failed", items |-> <<s.exc>>]]

PayloadTooLarge(v) ==
  [status_code |-> v.status_code, success |-> FALSE, syncedCounts |-> None,
   errors |-> <<>>, detail |-> v.detail]

\* The 422 response of a body that does not validate.
Unprocessable(e) ==
  [status_code |-> e.status_code, success |-> FALSE, syncedCounts |-> None,
   errors |-> <<>>, detail |-> e.detail]

\* POST /sync by the client with device id `device_id` and body.data `data`
\* from the dependencies to the response: the dependencies run, then the
\* body is validated, then the handler body runs.
sync_all_handled(device_id, data) ==
  /\ ncalls' = ncalls + 1
  /\ LET db0 == get_current_user(store, device_id)
         e == request_validation(data)
         v == validate_sync_payload(data)
         s == sync_collections(NewSession(db0, ncalls + 1), device_id, data, 1)
     IN IF e.exc # "none"
        THEN /\ store' = db0
             /\ last' = Handled(device_id, data, Unprocessable(e), {})
        ELSE IF v.exc # "none"
        THEN /\ store' = db0
             /\ last' = Handled(device_id, data, PayloadTooLarge(v), {})
        ELSE IF s.exc # "none"
             THEN /\ store' = rollback(db0, s)
                  /\ last' = Handled(device_id, data, SyncFailed(s), {})
             ELSE /\ store' = commit(db0, s)
                  /\ last' = Handled(device_id, data, SyncResponse(s), s.overwritten)

\* POST /sync handled with no other request in flight.
sync_all(device_id, data) ==
  /\ ncalls < MaxCalls
  /\ \A slot \in DOMAIN txs : txs[slot].phase = "idle"
  /\ UNCHANGED <<txs, read>>
  /\ sync_all_handled(device_id, data)

\* ------------------------------------------------- requests that overlap

\* The requests that can be in flight at once.
Slots == {"r1", "r2"}

\* No request in the slot.
Idle == [phase |-> "idle"]

\* --------------------------------------------------- limit_request_size

max_request_size_mb == 5

\* int(text) of a string of decimal digits.
RECURSIVE int(_)
int(text) ==
  IF text = <<>> THEN 0
  ELSE 10 * int(SubSeq(text, 1, Len(text) - 1)) + DigitVal[text[Len(text)]]

\* A request whose headers have arrived: the Content-Length header, None
\* for a body sent in chunks, and the number of bytes of the body that
\* follows.
Received(device_id, data, content_length, body_bytes) ==
  [phase |-> "received", user |-> device_id, data |-> data,
   content_length |-> content_length, body_bytes |-> body_bytes]

\* JSONResponse(status_code=413, content={"detail": "Request body too large..."})
RequestTooLarge ==
  [status_code |-> 413, success |-> FALSE, syncedCounts |-> None,
   errors |-> <<>>,
   detail |-> [msg |-> "Request body too large", items |-> <<>>]]

\* The server hands a POST /sync to the application.
receive(slot, device_id, data, content_length, body_bytes) ==
  /\ ncalls < MaxCalls
  /\ \A other \in DOMAIN txs : txs[other].phase = "idle"
  /\ txs' = [txs EXCEPT ![slot] =
               Received(device_id, data, content_length, body_bytes)]
  /\ UNCHANGED <<store, last, ncalls, read>>

\* The middleware on the request of `slot`: 413 for a Content-Length header
\* above max_size, else call_next, which runs the route.
limit_request_size(slot) ==
  /\ txs[slot].phase = "received"
  /\ txs' = [txs EXCEPT ![slot] = Idle]
  /\ UNCHANGED read
  /\ LET request == txs[slot]
         max_size == max_request_size_mb * 1024 * 1024
         content_length == request.content_length
     IN IF /\ content_length # None
           /\ content_length[1] # <<>>
           /\ int(content_length[1]) > max_size
        THEN /\ last' = Handled(request.user, request.data, RequestTooLarge, {})
             /\ UNCHANGED <<store, ncalls>>
        ELSE sync_all_handled(request.user, request.data)

\* The loops of the try block that await the database in every iteration
\* (a select or the upsert); the loops over the granular events only add
\* rows to the session.
LoopsWithAwait == {"videoSessions", "browserSessions", "dailyStats", "productiveUrls"}

\* The index in SyncKeys of the first loop from k on that has an item, or
\* Len(SyncKeys) + 1 when `await db.commit()` is next.
RECURSIVE next_loop(_, _)
next_loop(data, k) ==
  IF k > Len(SyncKeys) \/ data[SyncKeys[k]] # <<>> THEN k
  ELSE next_loop(data, k + 1)

\* A request inside the try block: the loop k and the iteration i that come
\* next, the statement of the unit of work that is not sent yet, the
\* statements sent and not committed, counts and errors.
InFlight(device_id, data, now) ==
  [phase |-> "run", user |-> device_id, data |-> data, now |-> now,
   k |-> next_loop(data, 1), i |-> 1,
   pending |-> <<>>, flushed |-> <<>>,
   counts |-> [key \in SyncKeySet |-> 0], errors |-> <<>>, overwritten |-> {}]

\* The request after an iteration: the next item of the loop, or the next
\* loop that has one.
advance(t) ==
  IF t.i < Len(t.data[SyncKeys[t.k]]) THEN [t EXCEPT !.i = @ + 1]
  ELSE [t EXCEPT !.k = next_loop(t.data, t.k + 1), !.i = 1]

\* INSERT INTO table, from db.add(row).
Insert(table, row) == [op |-> "insert", table |-> table, row |-> row]

\* UPDATE productive_urls SET ... WHERE id = (the row read as `old`): the
\* unit of work sets the columns whose value the assignments changed.
Update(old, new) ==
  [op |-> "update", table |-> "productive_urls", old |-> old, new |-> new,
   cols |-> {c \in {"url", "title", "deleted_at"} : new[c] # old[c]}]

\* INSERT INTO daily_stats ... ON CONFLICT (user_id, date) DO UPDATE.
Upsert(row) == [op |-> "upsert", table |-> "daily_stats", row |-> row]

\* The database after one statement.
apply_op(db, op) ==
  IF op.op = "insert" THEN [db EXCEPT ![op.table] = add(@, op.row)]
  ELSE IF op.op = "upsert"
  THEN [db EXCEPT !.daily_stats = on_conflict_do_update(@, op.row)]
  ELSE LET table == db.productive_urls
           same == {r \in DOMAIN table :
                      r.user_id = op.old.user_id /\ r.ext_id = op.old.ext_id}
           target == IF op.old \in DOMAIN table THEN op.old
                     ELSE CHOOSE r \in same : TRUE
       IN IF same = {} THEN db
          ELSE [db EXCEPT !.productive_urls =
                  add(table (-) SetToBag({target}),
                      [c \in DOMAIN target |->
                         IF c \in op.cols THEN op.new[c] ELSE target[c]])]

\* The database after a sequence of statements.
RECURSIVE apply_ops(_, _)
apply_ops(db, ops) ==
  IF ops = <<>> THEN db
  ELSE apply_ops(apply_op(db, Head(ops)), Tail(ops))

\* The database as a statement of request t reads it (READ COMMITTED): the
\* committed rows and the request's own flushed statements.
snapshot(t) == apply_ops(store, t.flushed)

\* Whether the statement `op` has to wait for request `other` to end: an
\* INSERT for an uncommitted row with its unique key, an UPDATE or the
\* update of an upsert for the lock of a row that `other` has written.
waits_for(op, other) ==
  /\ other.phase = "run"
  /\ IF op.op \in {"insert", "upsert"}
     THEN unique_violation(
            apply_ops(EmptyStore,
                      SelectSeq(other.flushed, LAMBDA o : o.op # "update")),
            op.table, op.row)
     ELSE \E j \in 1..Len(other.flushed) :
             /\ other.flushed[j].op = "update"
             /\ other.flushed[j].old.user_id = op.old.user_id
             /\ other.flushed[j].old.ext_id = op.old.ext_id

\* The flush of the pending statement of the request in `slot`: "ok",
\* "blocked" while the statement waits, or the exception it raises.
flush(slot) ==
  LET t == txs[slot]
  IN IF t.pending = <<>> THEN "ok"
     ELSE IF \E o \in Slots \ {slot} : waits_for(t.pending[1], txs[o])
          THEN "blocked"
     ELSE IF /\ t.pending[1].op = "insert"
             /\ unique_violation(snapshot(t), t.pending[1].table, t.pending[1].row)
          THEN "IntegrityError"
     ELSE "ok"

\* The request in `slot` leaves the try block with exception e: rollback and
\* the 500 response.
fail(slot, e) ==
  /\ store' = rollback(store, [db |-> snapshot(txs[slot])])
  /\ last' = Handled(txs[slot].user, txs[slot].data, SyncFailed([exc |-> e]), {})
  /\ txs' = [txs EXCEPT ![slot] = Idle]
  /\ UNCHANGED <<ncalls, read>>

\* The request in `slot` goes on as t1 after an iteration.
continue(slot, t1) ==
  /\ txs' = [txs EXCEPT ![slot] = advance(t1)]
  /\ UNCHANGED <<store, last, ncalls, read>>

\* POST /sync arrives while other requests may be in flight: the handler up
\* to the first loop that has an item.
begin_sync(slot, device_id, data) ==
  /\ txs[slot].phase = "idle"
  /\ ncalls < MaxCalls
  /\ ncalls' = ncalls + 1
  /\ store' = get_current_user(store, device_id)
  /\ UNCHANGED read
  /\ LET e == request_validation(data)
         v == validate_sync_payload(data)
     IN IF e.exc # "none"
        THEN /\ last' = Handled(device_id, data, Unprocessable(e), {})
             /\ UNCHANGED txs
        ELSE IF v.exc # "none"
        THEN /\ last' = Handled(device_id, data, PayloadTooLarge(v), {})
             /\ UNCHANGED txs
        ELSE /\ txs' = [txs EXCEPT ![slot] = InFlight(device_id, data, ncalls + 1)]
             /\ UNCHANGED last

\* A request inside get_current_user, after its select of the User row:
\* `found` is what scalar_one_or_none() returned.
InDependency(device_id, data, now, found) ==
  [phase |-> "auth", user |-> device_id, data |-> data, now |-> now,
   found |-> found]

\* The response to an exception that leaves a dependency: no handler of the
\* application catches it.
InternalServerError ==
  [status_code |-> 500, success |-> FALSE, syncedCounts |-> None,
   errors |-> <<>>, detail |-> [msg |-> "Internal Server Error", items |-> <<>>]]

\* A request arrives while other requests may be in flight: get_current_user
\* up to the result of select(User).where(device_id == ...).
get_current_user_select(slot, device_id, data) ==
  /\ txs[slot].phase = "idle"
  /\ ncalls < MaxCalls
  /\ \A key \in SyncKeySet \ LoopsWithAwait : data[key] = <<>>
  /\ ncalls' = ncalls + 1
  /\ txs' = [txs EXCEPT ![slot] =
               InDependency(device_id, data, ncalls + 1, device_id \in store.users)]
  /\ UNCHANGED <<store, last, read>>

\* The rest of get_current_user for the request in `slot` and the handler
\* up to its first loop: a user that was not found is added and committed,
\* and the INSERT fails with IntegrityError on users.device_id when another
\* request has committed the row since the select.
get_current_user_commit(slot) ==
  LET t == txs[slot]
  IN /\ t.phase = "auth"
     /\ UNCHANGED <<ncalls, read>>
     /\ IF ~t.found /\ t.user \in store.users
        THEN /\ last' = Handled(t.user, t.data, InternalServerError, {})
             /\ txs' = [txs EXCEPT ![slot] = Idle]
             /\ UNCHANGED store
        ELSE /\ store' = get_current_user(store, t.user)
             /\ LET e == request_validation(t.data)
                    v == validate_sync_payload(t.data)
                IN IF e.exc # "none"
                   THEN /\ last' = Handled(t.user, t.data, Unprocessable(e), {})
                        /\ txs' = [txs EXCEPT ![slot] = Idle]
                   ELSE IF v.exc # "none"
                   THEN /\ last' = Handled(t.user, t.data, PayloadTooLarge(v), {})
                        /\ txs' = [txs EXCEPT ![slot] = Idle]
                   ELSE /\ txs' = [txs EXCEPT ![slot] =
                                     InFlight(t.user, t.data, t.now)]
                        /\ UNCHANGED last

\* What the select of an iteration of the request in `slot` reads: the
\* autoflush has sent the pending statement (an upsert overwrites the row it
\* conflicts with).
after_flush(slot) ==
  LET t == txs[slot]
      hit == IF t.pending # <<>> /\ t.pending[1].op = "upsert"
             THEN conflicting(snapshot(t).daily_stats, t.pending[1].row)
             ELSE {}
  IN [t |-> [t EXCEPT !.flushed = t.flushed \o t.pending, !.pending = <<>>,
                      !.overwritten = @ \cup hit],
      db |-> apply_ops(store, t.flushed \o t.pending)]

\* Whether the request in `slot` is at an iteration of the loop over `key`.
in_loop(slot, key) ==
  /\ txs[slot].phase = "run"
  /\ txs[slot].k <= Len(SyncKeys)
  /\ SyncKeys[txs[slot].k] = key

\* The same, at a moment when its pending statement does not wait.
at_loop(slot, key) == in_loop(slot, key) /\ flush(slot) # "blocked"

\* One iteration of `for session_data in data.videoSessions` of the request
\* in `slot`: the select flushes the pending statement first, then a session
\* that is not found is added.
next_video_session(slot) ==
  /\ at_loop(slot, "videoSessions")
  /\ IF flush(slot) # "ok" THEN fail(slot, flush(slot))
     ELSE LET f == after_flush(slot)
              session_data == f.t.data.videoSessions[f.t.i]
              existing == scalar_one_or_none(
                            select_VideoSession(f.db, f.t.user, session_data.id))
          IN IF existing.exc # "none" THEN fail(slot, existing.exc)
             ELSE IF existing.row # None THEN continue(slot, f.t)
             ELSE IF ~(/\ opt_time_ok(session_data.ratedAt)
                       /\ fromtimestamp_ok(session_data.startedAt)
                       /\ opt_time_ok(session_data.endedAt)
                       /\ fromtimestamp_ok(session_data.timestamp))
                  THEN fail(slot, "ValueError")
             ELSE continue(slot,
                    [f.t EXCEPT
                       !.pending = <<Insert("video_sessions",
                                            VideoSession(f.t.user, session_data))>>,
                       !.counts["videoSessions"] = @ + 1])

\* One iteration of `for bs_data in data.browserSessions` of the request in
\* `slot`.
next_browser_session(slot) ==
  /\ at_loop(slot, "browserSessions")
  /\ IF flush(slot) # "ok" THEN fail(slot, flush(slot))
     ELSE LET f == after_flush(slot)
              bs_data == f.t.data.browserSessions[f.t.i]
              existing == scalar_one_or_none(
                            select_BrowserSession(f.db, f.t.user, bs_data.id))
          IN IF existing.exc # "none" THEN fail(slot, existing.exc)
             ELSE IF existing.row # None THEN continue(slot, f.t)
             ELSE IF ~(fromtimestamp_ok(bs_data.startedAt) /\ opt_time_ok(bs_data.endedAt))
                  THEN fail(slot, "ValueError")
             ELSE continue(slot,
                    [f.t EXCEPT
                       !.pending = <<Insert("browser_sessions",
                                            BrowserSession(f.t.user, bs_data))>>,
                       !.counts["browserSessions"] = @ + 1])

\* One iteration of `for date_str, stats_data in data.dailyStats.items()` of
\* the request in `slot`: an unparsable key is recorded; otherwise the
\* autoflush sends the pending statement and the upsert is handed to the
\* database, which runs it as the request's next statement.
next_daily_stats(slot) ==
  /\ in_loop(slot, "dailyStats")
  /\ LET t == txs[slot]
         entry == t.data.dailyStats[t.i]
         parsed == fromisoformat(entry.date_str)
     IN /\ parsed.ok => flush(slot) # "blocked"
        /\ IF ~parsed.ok
           THEN continue(slot, [t EXCEPT !.errors =
                                  Append(@, <<"Invalid date format", entry.date_str>>)])
           ELSE IF flush(slot) # "ok" THEN fail(slot, flush(slot))
           ELSE LET f == after_flush(slot)
                    row == DailyStats(f.t.user, parsed.date, entry.stats_data, f.t.now)
                IN continue(slot,
                     [f.t EXCEPT
                        !.pending = <<Upsert(row)>>,
                        !.counts["dailyStats"] = @ + 1])

\* One iteration of `for url_data in data.productiveUrls` of the request in
\* `slot`: the select flushes the pending statement first, then the found
\* row is assigned to, or a new row is added.
next_productive_url(slot) ==
  /\ at_loop(slot, "productiveUrls")
  /\ IF flush(slot) # "ok" THEN fail(slot, flush(slot))
     ELSE LET f == after_flush(slot)
              url_data == f.t.data.productiveUrls[f.t.i]
              existing == scalar_one_or_none(
                            select_ProductiveUrl(f.db, f.t.user, url_data.id))
          IN IF existing.row # None
             THEN LET op == Update(existing.row[1],
                                   restore_ProductiveUrl(existing.row[1], url_data))
                  IN continue(slot,
                       [f.t EXCEPT
                          !.pending = IF op.cols = {} THEN <<>> ELSE <<op>>,
                          !.overwritten = @ \cup {op.old},
                          !.counts["productiveUrls"] = @ + 1])
             ELSE IF ~fromtimestamp_ok(url_data.addedAt)
                  THEN fail(slot, "ValueError")
             ELSE continue(slot,
                    [f.t EXCEPT
                       !.pending = <<Insert("productive_urls",
                                            ProductiveUrl(f.t.user, url_data))>>,
                       !.counts["productiveUrls"] = @ + 1])

\* One iteration of a loop over granular events of the request in `slot`
\* (scroll, thumbnail, page, video watch, recommendation and intervention
\* events, mood reports): the row is added to the unit of work, which sends
\* its INSERT with the next flush; nothing is awaited.
next_event(slot) ==
  /\ txs[slot].phase = "run"
  /\ txs[slot].k <= Len(SyncKeys)
  /\ SyncKeys[txs[slot].k] \notin LoopsWithAwait
  /\ LET t == txs[slot]
         key == SyncKeys[t.k]
         event == t.data[key][t.i]
         ok == CASE key = "interventionEvents" ->
                      fromtimestamp_ok(event.triggeredAt) /\ opt_time_ok(event.responseAt)
                 [] OTHER -> fromtimestamp_ok(event.timestamp)
         row == CASE key = "interventionEvents" -> InterventionEvent(t.user, event)
                  [] key = "moodReports" -> MoodReport(t.user, event)
                  [] OTHER -> PlainEvent(t.user, event)
     IN IF ~ok THEN fail(slot, "ValueError")
        ELSE continue(slot,
               [t EXCEPT !.pending = @ \o <<Insert(TableOf[key], row)>>,
                         !.counts[key] = @ + 1])

\* `await db.commit()` of the request in `slot`, after the last iteration:
\* the pending statement is flushed, the statements are committed and the
\* response is returned.
commit_sync(slot) ==
  LET t == txs[slot]
  IN /\ t.phase = "run"
     /\ t.k > Len(SyncKeys)
     /\ flush(slot) # "blocked"
     /\ IF flush(slot) # "ok" THEN fail(slot, flush(slot))
        ELSE LET s == [db |-> after_flush(slot).db,
                       counts |-> t.counts,
                       errors |-> t.errors]
             IN /\ store' = commit(store, s)
                /\ last' = Handled(t.user, t.data, SyncResponse(s),
                                   after_flush(slot).t.overwritten)
                /\ txs' = [txs EXCEPT ![slot] = Idle]
                /\ UNCHANGED <<ncalls, read>>

\* The database ends a deadlock: the statement of the request in `slot`,
\* which waits for a request that waits for it, fails.
deadlock_detected(slot) ==
  /\ txs[slot].phase = "run"
  /\ txs[slot].pending # <<>>
  /\ \E o \in Slots \ {slot} :
        /\ txs[o].phase = "run"
        /\ txs[o].pending # <<>>
        /\ waits_for(txs[slot].pending[1], txs[o])
        /\ waits_for(txs[o].pending[1], txs[slot])
  /\ fail(slot, "DeadlockDetected")

\* The soft delete of a bookmark: the live row of (device_id, ext_id) gets a
\* deleted timestamp, when no request in flight holds the lock of the row.
\* No request to sync_all does this.
soft_delete(device_id, ext_id) ==
  /\ \E r \in DOMAIN store.productive_urls :
        /\ r.user_id = device_id /\ r.ext_id = ext_id /\ r.deleted_at = None
        /\ \A o \in Slots :
              ~waits_for(Update(r, [r EXCEPT !.deleted_at = Some(fromtimestamp(ncalls))]),
                         txs[o])
        /\ store' = [store EXCEPT
                       !.productive_urls =
                          add(@ (-) SetToBag({r}),
                              [r EXCEPT !.deleted_at = Some(fromtimestamp(ncalls))])]
  /\ UNCHANGED <<last, ncalls, txs, read>>

\* A bookmark is suggested to its user, and clicked or not: the counters of
\* the live row of (device_id, ext_id) go up.  No request to sync_all does
\* this.
MaxSuggestions == 1

record_suggestion(device_id, ext_id, clicked) ==
  /\ \E r \in DOMAIN store.productive_urls :
        /\ r.user_id = device_id /\ r.ext_id = ext_id /\ r.deleted_at = None
        /\ r.times_suggested < MaxSuggestions
        /\ store' = [store EXCEPT
                       !.productive_urls =
                          add(@ (-) SetToBag({r}),
                              [r EXCEPT !.times_suggested = @ + 1,
                                        !.times_clicked = IF clicked THEN @ + 1 ELSE @])]
  /\ UNCHANGED <<last, ncalls, txs, read>>

\* ------------------------------------------------- GET /sync/stats/{date}

\* No read handled yet.
NoRead ==
  [endpoint |-> "", user |-> "", date |-> <<>>, status_code |-> 0,
   found |-> FALSE, totalSeconds |-> None, videoCount |-> None, after |-> 0]

\* A lookup of the statistics of a date in the rows of every user.
select_DailyStats_of_any_user(db, user, stats_date) ==
  Restrict(db.daily_stats, {r \in DOMAIN db.daily_stats : r.date = stats_date})

\* select(DailyStats).where(user_id == user.id, date == stats_date)
select_DailyStats(db, user, stats_date) ==
  Restrict(db.daily_stats,
           {r \in DOMAIN db.daily_stats : r.user_id = user /\ r.date = stats_date})

\* The response of get_daily_stats for `user` and the path parameter
\* date_str against database db: 400 for a date that does not parse,
\* found = False when no row is stored, else the columns of the row.
stats_response(db, user, date_str) ==
  LET parsed == fromisoformat(date_str)
      stats == scalar_one_or_none(select_DailyStats(db, user, parsed.date))
      answer == [NoRead EXCEPT !.endpoint = "get_daily_stats",
                               !.user = user, !.date = date_str]
  IN IF ~parsed.ok THEN [answer EXCEPT !.status_code = 400]
     ELSE IF stats.exc # "none" THEN [answer EXCEPT !.status_code = 500]
     ELSE IF stats.row = None THEN [answer EXCEPT !.status_code = 200]
     ELSE [answer EXCEPT !.status_code = 200, !.found = TRUE,
                         !.totalSeconds = Some(stats.row[1].total_seconds),
                         !.videoCount = Some(stats.row[1].video_count)]

\* GET /sync/stats/{date_str} by the client with device id `device_id`,
\* handled with no other request in flight: the dependency creates the User
\* row of an unknown client; `after` records how many sync requests were
\* handled before the read.
get_daily_stats(device_id, date_str) ==
  /\ \A slot \in DOMAIN txs : txs[slot].phase = "idle"
  /\ store' = get_current_user(store, device_id)
  /\ read' = [stats_response(store', device_id, date_str) EXCEPT !.after = ncalls]
  /\ UNCHANGED <<last, ncalls, txs>>

\* ------------------------------------------------------ GET /stats/weekly

\* The day before date d in the calendar.
yesterday(d) ==
  IF d.day > 1 THEN [d EXCEPT !.day = d.day - 1]
  ELSE IF d.month > 1
       THEN [d EXCEPT !.month = d.month - 1,
                      !.day = DaysInMonth(d.year, d.month - 1)]
       ELSE [year |-> d.year - 1, month |-> 12, day |-> 31]

\* d - timedelta(days=days)
RECURSIVE timedelta_sub(_, _)
timedelta_sub(d, days) ==
  IF days = 0 THEN d ELSE timedelta_sub(yesterday(d), days - 1)

\* a <= b on the Date column.
date_le(a, b) ==
  \/ a.year < b.year
  \/ a.year = b.year /\ a.month < b.month
  \/ a.year = b.year /\ a.month = b.month /\ a.day <= b.day

\* func.sum(column) over the rows of a bag: NULL when there is no row.
RECURSIVE func_sum(_, _)
func_sum(rows, column) ==
  IF DOMAIN rows = {} THEN None
  ELSE LET r == CHOOSE x \in DOMAIN rows : TRUE
           rest == func_sum(Restrict(rows, DOMAIN rows \ {r}), column)
       IN Some(r[column] * rows[r] + (IF rest = None THEN 0 ELSE rest[1]))

\* value or 0
or_0(value) == IF value = None THEN 0 ELSE value[1]

\* round(num / den, 0) for den > 0, as an integer: the nearest integer, the
\* even one of the two at a tie of the exact quotient.
round_half_even(num, den) ==
  LET q == num \div den
      r == num - q * den
  IN IF 2 * r < den THEN q
     ELSE IF 2 * r > den THEN q + 1
     ELSE IF q % 2 = 0 THEN q ELSE q + 1

\* this_week_start = today - timedelta(days=6)
this_week_start(today) == timedelta_sub(today, 6)

\* prev_week_start = today - timedelta(days=13)
prev_week_start(today) == timedelta_sub(today, 13)

\* A previous window that ends on the first day of the current one.
prev_week_end_overlapping(today) == timedelta_sub(today, 6)

\* prev_week_end = today - timedelta(days=7)
prev_week_end(today) == timedelta_sub(today, 7)

\* The rows of `user` whose date is in [start, end]: the where clause of
\* both window queries.
week_rows(db, user, start, end) ==
  Restrict(db.daily_stats,
           {r \in DOMAIN db.daily_stats :
              r.user_id = user /\ date_le(start, r.date) /\ date_le(r.date, end)})

\* A percentage that is computed even when the previous window is empty of
\* minutes, as 100.0.
change_percent_without_guard(this_week_minutes, prev_week_minutes) ==
  IF prev_week_minutes > 0
  THEN round_half_even(1000 * (this_week_minutes - prev_week_minutes),
                       prev_week_minutes)
  ELSE 1000

\* change_percent, in tenths of a percent: 0.0 unless prev_week_minutes > 0,
\* else round(((this - prev) / prev) * 100, 1).
change_percent(this_week_minutes, prev_week_minutes) ==
  IF prev_week_minutes > 0
  THEN round_half_even(1000 * (this_week_minutes - prev_week_minutes),
                       prev_week_minutes)
  ELSE 0

\* The WeeklyComparison that get_weekly_comparison returns to `user` on the
\* day `today` against database db; change_percent is in tenths of a percent.
WeeklyComparison(db, user, today) ==
  LET this_week == week_rows(db, user, this_week_start(today), today)
      prev_week == week_rows(db, user, prev_week_start(today),
                             prev_week_end(today))
      this_week_minutes == or_0(func_sum(this_week, "total_seconds")) \div 60
      prev_week_minutes == or_0(func_sum(prev_week, "total_seconds")) \div 60
  IN [endpoint |-> "get_weekly_comparison", user |-> user, today |-> today,
      status_code |-> 200,
      this_week_minutes |-> this_week_minutes,
      prev_week_minutes |-> prev_week_minutes,
      change_percent |-> change_percent(this_week_minutes, prev_week_minutes),
      this_week_videos |-> or_0(func_sum(this_week, "video_count")),
      prev_week_videos |-> or_0(func_sum(prev_week, "video_count")),
      after |-> 0]

\* GET /stats/weekly by the client with device id `device_id` on the day
\* `today` of the server, handled with no other request in flight: the
\* dependency creates the User row of an unknown client.
get_weekly_comparison(device_id, today) ==
  /\ \A slot \in DOMAIN txs : txs[slot].phase = "idle"
  /\ store' = get_current_user(store, device_id)
  /\ read' = [WeeklyComparison(store', device_id, today) EXCEPT !.after = ncalls]
  /\ UNCHANGED <<last, ncalls, txs>>

\* ---------------------------------------------------- GET /stats/channels

\* The response to a query parameter `days` outside 1..90.
UnprocessableQuery(user, today, days) ==
  [endpoint |-> "get_top_channels", user |-> user, today |-> today,
   days |-> days, status_code |-> 422, channels |-> <<>>, after |-> 0]

\* The rows of `user` with a channel and a timestamp not before `since`.
channel_rows(db, user, since) ==
  Restrict(db.video_sessions,
           {r \in DOMAIN db.video_sessions :
              /\ r.user_id = user
              /\ timestamp_ge(r.timestamp, since)
              /\ r.channel # None})

\* group_by(channel) with count(id) and sum(watched_seconds).
group_by_channel(rows) ==
  {LET group == Restrict(rows, {r \in DOMAIN rows : r.channel = c})
   IN [channel |-> c[1],
       video_count |-> RowCount(group),
       total_seconds |-> or_0(func_sum(group, "watched_seconds"))] :
   c \in {r.channel : r \in DOMAIN rows}}

\* order_by(sum(watched_seconds).desc()): the orders the database may
\* return, groups of equal sums in any order.
RECURSIVE order_by_desc(_)
order_by_desc(groups) ==
  IF groups = {} THEN {<<>>}
  ELSE UNION {{<<g>> \o rest : rest \in order_by_desc(groups \ {g})} :
              g \in {g \in groups :
                       \A h \in groups : g.total_seconds >= h.total_seconds}}

\* A query without the limit.
limit_none(result, n) == result

\* .limit(n)
limit(result, n) ==
  IF Len(result) <= n THEN result ELSE SubSeq(result, 1, n)

\* The responses that get_top_channels may return to `user` on the day
\* `today` for the trailing `days` days; totalMinutes is in tenths.
top_channels(db, user, today, days) ==
  IF days < 1 \/ days > 90 THEN {UnprocessableQuery(user, today, days)}
  ELSE LET since == timedelta_sub(today, days)
           groups == group_by_channel(channel_rows(db, user, since))
       IN {[UnprocessableQuery(user, today, days) EXCEPT
              !.status_code = 200,
              !.channels =
                 [i \in DOMAIN limit(result, 10) |->
                    [channel |-> result[i].channel,
                     videoCount |-> result[i].video_count,
                     totalMinutes |->
                        round_half_even(10 * result[i].total_seconds, 60)]]] :
           result \in order_by_desc(groups)}

\* GET /stats/channels?days=... by the client with device id `device_id` on
\* the day `today` of the server, handled with no other request in flight:
\* the dependency creates the User row of an unknown client.
get_top_channels(device_id, today, days) ==
  /\ \A slot \in DOMAIN txs : txs[slot].phase = "idle"
  /\ store' = get_current_user(store, device_id)
  /\ \E response \in top_channels(store', device_id, today, days) :
        read' = [response EXCEPT !.after = ncalls]
  /\ UNCHANGED <<last, ncalls, txs>>

\* ---------------------------------------------- GET /interventions/summary

\* The response to a query parameter `days` outside 1..90.
UnprocessableSummary(user, now, days) ==
  [endpoint |-> "get_intervention_summary", user |-> user, now |-> now,
   days |-> days, status_code |-> 422, total_interventions |-> 0,
   by_type |-> <<>>, after |-> 0]

\* select(InterventionEvent).where(user_id == user.id, triggered_at >= since)
select_InterventionEvent(db, user, since) ==
  Restrict(db.intervention_events,
           {r \in DOMAIN db.intervention_events :
              /\ r.user_id = user
              /\ datetime_ge(datetime(r.triggered_at), since)})

\* `if event.response`: None and the empty string are falsy.
truthy_str(value) == value # None /\ value[1] # ""

\* `if event.response_time_ms`: None and 0 are falsy.
truthy_int(value) == value # None /\ value[1] # 0

\* sum(stats["response_times"]) over events that have a response time.
RECURSIVE sum_response_times(_)
sum_response_times(events) ==
  IF DOMAIN events = {} THEN 0
  ELSE LET e == CHOOSE x \in DOMAIN events : TRUE
       IN e.response_time_ms[1] * events[e]
          + sum_response_times(Restrict(events, DOMAIN events \ {e}))

\* A rate over the events with a response.
rate_of_responded(count, stats) ==
  IF stats.responded > 0
  THEN round_half_even(1000 * count, stats.responded) ELSE 0

\* round(count / total * 100, 1) if total > 0 else 0, in tenths of a percent.
rate(count, stats) ==
  IF stats.total > 0 THEN round_half_even(1000 * count, stats.total) ELSE 0

\* The entry of by_type for the events of one intervention type;
\* avg_response_time_ms is the quotient num / den.
type_stats(events) ==
  LET responded ==
        Restrict(events, {e \in DOMAIN events : truthy_str(e.response)})
      timed ==
        Restrict(responded,
                 {e \in DOMAIN responded : truthy_int(e.response_time_ms)})
      effective ==
        Restrict(events, {e \in DOMAIN events : e.user_left_youtube})
      stats == [total |-> RowCount(events),
                responded |-> RowCount(responded),
                effective |-> RowCount(effective)]
  IN [total |-> stats.total,
      responded |-> stats.responded,
      effective |-> stats.effective,
      avg_response_time_ms |->
         IF RowCount(timed) > 0
         THEN [num |-> sum_response_times(timed), den |-> RowCount(timed)]
         ELSE [num |-> 0, den |-> 1],
      response_rate |-> rate(stats.responded, stats),
      effectiveness_rate |-> rate(stats.effective, stats)]

\* The response of get_intervention_summary to `user` at the time `now` for
\* the trailing `days` days.
intervention_summary(db, user, now, days) ==
  IF days < 1 \/ days > 90 THEN UnprocessableSummary(user, now, days)
  ELSE LET events == select_InterventionEvent(db, user, datetime_sub(now, days))
           types == {e.intervention_type : e \in DOMAIN events}
       IN [UnprocessableSummary(user, now, days) EXCEPT
             !.status_code = 200,
             !.total_interventions = RowCount(events),
             !.by_type =
                [t \in types |->
                   type_stats(Restrict(events,
                                       {e \in DOMAIN events :
                                          e.intervention_type = t}))]]

\* GET /interventions/summary?days=... by the client with device id
\* `device_id` at the time `now` of the server, handled with no other
\* request in flight: the dependency creates the User row of an unknown
\* client.
get_intervention_summary(device_id, now, days) ==
  /\ \A slot \in DOMAIN txs : txs[slot].phase = "idle"
  /\ store' = get_current_user(store, device_id)
  /\ read' = [intervention_summary(store', device_id, now, days)
                EXCEPT !.after = ncalls]
  /\ UNCHANGED <<last, ncalls, txs>>

\* ------------------------------------------------------ GET /mood/reports

\* The day after date d in the calendar.
tomorrow(d) ==
  IF d.day < DaysInMonth(d.year, d.month) THEN [d EXCEPT !.day = d.day + 1]
  ELSE IF d.month < 12 THEN [d EXCEPT !.month = d.month + 1, !.day = 1]
       ELSE [year |-> d.year + 1, month |-> 1, day |-> 1]

\* The date of the day counted from 1 January 1970.
RECURSIVE date_of_day(_)
date_of_day(day) ==
  IF day = 0 THEN [year |-> 1970, month |-> 1, day |-> 1]
  ELSE IF day < 0 THEN yesterday(date_of_day(day + 1))
       ELSE tomorrow(date_of_day(day - 1))

\* timestamp.strftime('%Y-%m-%d')
strftime(timestamp) ==
  LET d == date_of_day(datetime(timestamp).day)
  IN <<DigitChar(d.year \div 1000), DigitChar((d.year \div 100) % 10),
       DigitChar((d.year \div 10) % 10), DigitChar(d.year % 10), "-",
       DigitChar(d.month \div 10), DigitChar(d.month % 10), "-",
       DigitChar(d.day \div 10), DigitChar(d.day % 10)>>

\* select(MoodReport).where(user_id == user.id, timestamp >= since)
select_MoodReport(db, user, since) ==
  Restrict(db.mood_reports,
           {r \in DOMAIN db.mood_reports :
              /\ r.user_id = user
              /\ datetime_ge(datetime(r.timestamp), since)})

\* order_by(MoodReport.timestamp.desc()): the orders the database may
\* return, reports of the same time in any order.
RECURSIVE order_by_timestamp_desc(_)
order_by_timestamp_desc(rows) ==
  IF DOMAIN rows = {} THEN {<<>>}
  ELSE UNION {{<<r>> \o rest :
                 rest \in order_by_timestamp_desc(rows (-) SetToBag({r}))} :
              r \in {r \in DOMAIN rows :
                       \A o \in DOMAIN rows : r.timestamp.us >= o.timestamp.us}}

\* .limit(limit).offset(offset)
limit_offset(result, n, offset) ==
  SubSeq(result, offset + 1,
         IF Len(result) <= offset + n THEN Len(result) ELSE offset + n)

\* sum(values) of a sequence of integers.
RECURSIVE sum(_)
sum(values) == IF values = <<>> THEN 0 ELSE Head(values) + sum(Tail(values))

\* [r[column] for r in reports if r.report_type == report_type]
moods_of_type(reports, report_type) ==
  LET chosen == SelectSeq(reports, LAMBDA r : r.report_type = report_type)
  IN [i \in DOMAIN chosen |-> chosen[i].mood]

\* [r.mood for r in reports if r.report_type != 'pre']
moods_not_pre(reports) ==
  LET chosen == SelectSeq(reports, LAMBDA r : r.report_type # "pre")
  IN [i \in DOMAIN chosen |-> chosen[i].mood]

\* sum(values) / len(values) if values else None: the quotient num / den.
average(values) ==
  IF values = <<>> THEN None
  ELSE Some([num |-> sum(values), den |-> Len(values)])

\* round(avg, 2), in hundredths.
round_2(avg) == round_half_even(100 * avg.num, avg.den)

\* `x if avg else None`: None and an average of 0 are falsy.
truthy_average(avg) == avg # None /\ avg[1].num # 0

\* An average that counts only when it is not 0.
is_not_zero(avg) == avg # None /\ avg[1].num # 0

\* `avg is not None`
is_not_none(avg) == avg # None

\* mood_change: round(avg_post_mood - avg_pre_mood, 2) in hundredths when
\* both averages are not None.
mood_change(avg_pre_mood, avg_post_mood) ==
  IF is_not_none(avg_pre_mood) /\ is_not_none(avg_post_mood)
  THEN Some(round_half_even(
              100 * (avg_post_mood[1].num * avg_pre_mood[1].den
                     - avg_pre_mood[1].num * avg_post_mood[1].den),
              avg_pre_mood[1].den * avg_post_mood[1].den))
  ELSE None

\* MoodReportResponse of a row: the timestamp goes back to milliseconds.
MoodReportResponse(r) ==
  [sessionId |-> r.session_id, timestamp |-> r.timestamp.us \div 1000,
   reportType |-> r.report_type, mood |-> r.mood,
   intention |-> r.intention, satisfaction |-> r.satisfaction]

\* The response to query parameters outside their ranges.
UnprocessableReports(user, now, days, n, offset) ==
  [endpoint |-> "get_mood_reports", user |-> user, now |-> now,
   days |-> days, limit |-> n, offset |-> offset, status_code |-> 422,
   reports |-> <<>>, total |-> 0, avg_pre_mood |-> None,
   avg_post_mood |-> None, avg_satisfaction |-> None, mood_change |-> None,
   after |-> 0]

\* MoodReportsListResponse over the page `reports`; averages in hundredths.
MoodReportsListResponse(user, now, days, n, offset, reports) ==
  LET avg_pre_mood == average(moods_of_type(reports, "pre"))
      avg_post_mood == average(moods_of_type(reports, "post"))
      rated == SelectSeq(reports, LAMBDA r : r.satisfaction # None)
      avg_satisfaction == average([i \in DOMAIN rated |-> rated[i].satisfaction[1]])
      rounded(avg) == IF truthy_average(avg) THEN Some(round_2(avg[1])) ELSE None
  IN [UnprocessableReports(user, now, days, n, offset) EXCEPT
        !.status_code = 200,
        !.reports = [i \in DOMAIN reports |-> MoodReportResponse(reports[i])],
        !.total = Len(reports),
        !.avg_pre_mood = rounded(avg_pre_mood),
        !.avg_post_mood = rounded(avg_post_mood),
        !.avg_satisfaction = rounded(avg_satisfaction),
        !.mood_change = mood_change(avg_pre_mood, avg_post_mood)]

\* The responses that get_mood_reports may return.
mood_reports(db, user, now, days, n, offset) ==
  IF days < 1 \/ days > 90 \/ n < 1 \/ n > 1000 \/ offset < 0
  THEN {UnprocessableReports(user, now, days, n, offset)}
  ELSE {MoodReportsListResponse(user, now, days, n, offset,
                                limit_offset(result, n, offset)) :
          result \in order_by_timestamp_desc(
                       select_MoodReport(db, user, datetime_sub(now, days)))}

\* GET /mood/reports?days=...&limit=...&offset=... by the client with
\* device id `device_id` at the time `now` of the server, handled with no
\* other request in flight: the dependency creates the User row of an
\* unknown client.
get_mood_reports(device_id, now, days, n, offset) ==
  /\ \A slot \in DOMAIN txs : txs[slot].phase = "idle"
  /\ store' = get_current_user(store, device_id)
  /\ \E response \in mood_reports(store', device_id, now, days, n, offset) :
        read' = [response EXCEPT !.after = ncalls]
  /\ UNCHANGED <<last, ncalls, txs>>

\* ----------------------------------------------- GET /interventions/events

\* The response to query parameters outside their ranges.
UnprocessableEvents(user, now, days, intervention_type, n, offset) ==
  [endpoint |-> "get_intervention_events", user |-> user, now |-> now,
   days |-> days, intervention_type |-> intervention_type, limit |-> n,
   offset |-> offset, status_code |-> 422, events |-> <<>>, total |-> 0,
   responded |-> 0, effective |-> 0, effectiveness_rate |-> 0, after |-> 0]

\* order_by(InterventionEvent.triggered_at.desc()): the orders the database
\* may return, events of the same time in any order.
RECURSIVE order_by_triggered_at_desc(_)
order_by_triggered_at_desc(rows) ==
  IF DOMAIN rows = {} THEN {<<>>}
  ELSE UNION {{<<r>> \o rest :
                 rest \in order_by_triggered_at_desc(rows (-) SetToBag({r}))} :
              r \in {r \in DOMAIN rows :
                       \A o \in DOMAIN rows : r.triggered_at.us >= o.triggered_at.us}}

\* InterventionEventsListResponse over the page `events`: the rate is
\* round(effective_count / total_with_response * 100, 1) if
\* total_with_response > 0 else 0.0, in tenths of a percent.
InterventionEventsListResponse(user, now, days, intervention_type, n, offset, events) ==
  LET total_with_response ==
        Len(SelectSeq(events, LAMBDA e : e.response # None))
      effective_count == Len(SelectSeq(events, LAMBDA e : e.user_left_youtube))
  IN [UnprocessableEvents(user, now, days, intervention_type, n, offset) EXCEPT
        !.status_code = 200,
        !.events = events,
        !.total = Len(events),
        !.responded = total_with_response,
        !.effective = effective_count,
        !.effectiveness_rate =
           IF total_with_response > 0
           THEN round_half_even(1000 * effective_count, total_with_response)
           ELSE 0]

\* The responses that get_intervention_events may return.
intervention_events(db, user, now, days, intervention_type, n, offset) ==
  IF days < 1 \/ days > 90 \/ n < 1 \/ n > 1000 \/ offset < 0
  THEN {UnprocessableEvents(user, now, days, intervention_type, n, offset)}
  ELSE LET since == select_InterventionEvent(db, user, datetime_sub(now, days))
           query == IF truthy_str(intervention_type)
                    THEN Restrict(since,
                                  {e \in DOMAIN since :
                                     e.intervention_type = intervention_type[1]})
                    ELSE since
       IN {InterventionEventsListResponse(user, now, days, intervention_type, n,
                                          offset, limit_offset(result, n, offset)) :
             result \in order_by_triggered_at_desc(query)}

\* GET /interventions/events?days=...&intervention_type=...&limit=...&offset=...
\* by the client with device id `device_id` at the time `now` of the server,
\* handled with no other request in flight: the dependency creates the User
\* row of an unknown client.
get_intervention_events(device_id, now, days, intervention_type, n, offset) ==
  /\ \A slot \in DOMAIN txs : txs[slot].phase = "idle"
  /\ store' = get_current_user(store, device_id)
  /\ \E response \in intervention_events(store', device_id, now, days,
                                          intervention_type, n, offset) :
        read' = [response EXCEPT !.after = ncalls]
  /\ UNCHANGED <<last, ncalls, txs>>

\* ------------------------------------------------------ GET /sync/restore

\* int(t.timestamp() * 1000): a stored time in epoch milliseconds, cut
\* towards zero.
to_ms(t) == IF t.us >= 0 THEN t.us \div 1000 ELSE -((-t.us) \div 1000)

\* `int(t.timestamp() * 1000) if t else None`
opt_ms(t) == IF t = None THEN None ELSE Some(to_ms(t[1]))

\* date.isoformat()
isoformat(d) ==
  <<DigitChar(d.year \div 1000), DigitChar((d.year \div 100) % 10),
    DigitChar((d.year \div 10) % 10), DigitChar(d.year % 10), "-",
    DigitChar(d.month \div 10), DigitChar(d.month % 10), "-",
    DigitChar(d.day \div 10), DigitChar(d.day % 10)>>

\* str(s.id): the text of the surrogate key of a row, a UUID that the server
\* drew; it is no id of a client.
str_id(s) ==
  IF s.user_id = "u1" THEN "4b1d0c1e-0000-4000-8000-000000000001"
  ELSE "4b1d0c1e-0000-4000-8000-000000000002"

\* order_by(column.desc()) for the column whose values are rank[r]: the
\* orders the database may return, rows of the same value in any order.
RECURSIVE order_by_rank_desc(_, _)
order_by_rank_desc(rows, rank) ==
  IF DOMAIN rows = {} THEN {<<>>}
  ELSE UNION {{<<r>> \o rest :
                 rest \in order_by_rank_desc(rows (-) SetToBag({r}), rank)} :
              r \in {r \in DOMAIN rows : \A o \in DOMAIN rows : rank[r] >= rank[o]}}

\* An entry of formatted_videos: `s.ext_session_id or str(s.id)` takes the
\* surrogate key when the external id is empty.
formatted_video(s) ==
  [id |-> IF s.ext_session_id # "" THEN s.ext_session_id ELSE str_id(s),
   title |-> s.title,
   channel |-> s.channel,
   watchedSeconds |-> s.watched_seconds,
   timestamp |-> to_ms(s.timestamp),
   startedAt |-> to_ms(s.started_at),
   endedAt |-> opt_ms(s.ended_at),
   ratedAt |-> opt_ms(s.rated_at)]

\* An entry of formatted_browser.
formatted_browser(s) ==
  [id |-> s.ext_session_id,
   startedAt |-> to_ms(s.started_at),
   endedAt |-> opt_ms(s.ended_at),
   entryUrl |-> s.entry_url,
   totalDurationSeconds |-> s.total_duration_seconds]

\* An entry of formatted_daily, with its key.
formatted_daily(ds) ==
  [date_str |-> isoformat(ds.date),
   stats_data |-> [totalSeconds |-> ds.total_seconds, videoCount |-> ds.video_count]]

\* The responses that restore_data may return to `user` at the time `now`:
\* the video sessions (at most 500), browser sessions (at most 100) and
\* daily statistics of the last thirty days, newest first.
restored(db, user, now) ==
  LET thirty_days_ago == datetime_sub(now, 30)
      vs == Restrict(db.video_sessions,
                     {r \in DOMAIN db.video_sessions :
                        /\ r.user_id = user
                        /\ datetime_ge(datetime(r.timestamp), thirty_days_ago)})
      bs == Restrict(db.browser_sessions,
                     {r \in DOMAIN db.browser_sessions :
                        /\ r.user_id = user
                        /\ datetime_ge(datetime(r.started_at), thirty_days_ago)})
      ds == Restrict(db.daily_stats,
                     {r \in DOMAIN db.daily_stats :
                        /\ r.user_id = user
                        /\ date_le(date_of_day(thirty_days_ago.day), r.date)})
  IN {[endpoint |-> "restore_data", user |-> user, now |-> now,
       status_code |-> 200, success |-> TRUE,
       data |-> [SyncData EXCEPT
                   !.videoSessions =
                      [i \in 1..Len(video_sessions) |-> formatted_video(video_sessions[i])],
                   !.browserSessions =
                      [i \in 1..Len(browser_sessions) |->
                         formatted_browser(browser_sessions[i])],
                   !.dailyStats =
                      [i \in 1..Len(daily_stats) |-> formatted_daily(daily_stats[i])]],
       counts |-> [videoSessions |-> Len(video_sessions),
                   browserSessions |-> Len(browser_sessions),
                   dailyStats |-> Len(daily_stats)],
       after |-> 0] :
        video_sessions \in
          {limit_offset(result, 500, 0) :
             result \in order_by_rank_desc(vs, [r \in DOMAIN vs |-> r.timestamp.us])},
        browser_sessions \in
          {limit_offset(result, 100, 0) :
             result \in order_by_rank_desc(bs, [r \in DOMAIN bs |-> r.started_at.us])},
        daily_stats \in
          order_by_rank_desc(ds, [r \in DOMAIN ds |-> toordinal(r.date)])}

\* GET /sync/restore by the client with device id `device_id` at the time
\* `now` of the server, handled with no other request in flight: the
\* dependency creates the User row of an unknown client.
restore_data(device_id, now) ==
  /\ \A slot \in DOMAIN txs : txs[slot].phase = "idle"
  /\ store' = get_current_user(store, device_id)
  /\ \E response \in restored(store', device_id, now) :
        read' = [response EXCEPT !.after = ncalls]
  /\ UNCHANGED <<last, ncalls, txs>>

\* The client posts the data of its last restore to POST /sync.
sync_restored(device_id) ==
  /\ read.endpoint = "restore_data"
  /\ read.user = device_id
  /\ sync_all(device_id, read.data)

\* ------------------------------------------------------- sanitize_url

\* A call of sanitize_url(value): the value and what is returned are kept
\* as the last thing read; nothing is stored.
call_sanitize_url(value) ==
  /\ read' = [endpoint |-> "sanitize_url", value |-> value,
              result |-> sanitize_url(value)]
  /\ UNCHANGED <<store, last, ncalls, txs>>

\* ------------------------------------------------------- GET /mood/trends

\* The response to a query parameter `days` outside 7..90.
UnprocessableTrends(user, now, days) ==
  [endpoint |-> "get_mood_trends", user |-> user, now |-> now, days |-> days,
   status_code |-> 422, trends |-> <<>>, after |-> 0]

\* order_by(MoodReport.timestamp): the orders the database may return.
order_by_timestamp(rows) ==
  {[i \in DOMAIN result |-> result[Len(result) + 1 - i]] :
     result \in order_by_timestamp_desc(rows)}

\* list(set(intentions))[:5]: the intentions, any five of more than five.
common_intentions(intentions) ==
  {chosen \in SUBSET intentions :
     Cardinality(chosen)
       = IF Cardinality(intentions) <= 5 THEN Cardinality(intentions) ELSE 5}

\* The entries of `trends` that the reports of one date may give: a report
\* that is not 'pre' goes to post_moods; averages in hundredths.
trend_entries(date_str, reports) ==
  LET pre_moods == moods_of_type(reports, "pre")
      post_moods == moods_not_pre(reports)
      rated == SelectSeq(reports, LAMBDA r : truthy_int(r.satisfaction))
      satisfactions == [i \in DOMAIN rated |-> rated[i].satisfaction[1]]
      intentions == {reports[i].intention[1] :
                       i \in {i \in DOMAIN reports : truthy_str(reports[i].intention)}}
      rounded(values) ==
        IF values # <<>> THEN Some(round_2(average(values)[1])) ELSE None
  IN {[date |-> date_str,
       avg_pre_mood |-> rounded(pre_moods),
       avg_post_mood |-> rounded(post_moods),
       avg_satisfaction |-> rounded(satisfactions),
       report_count |-> Len(pre_moods) + Len(post_moods),
       common_intentions |-> chosen] :
      chosen \in common_intentions(intentions)}

\* for date_str, data in sorted(by_date.items()): the entries of the days of
\* `days_left` in ascending order (the order of the strings, for years of
\* four digits).
RECURSIVE trends_of(_, _)
trends_of(days_left, reports) ==
  IF days_left = {} THEN {<<>>}
  ELSE LET day == CHOOSE d \in days_left : \A o \in days_left : d <= o
           of_day == SelectSeq(reports,
                               LAMBDA r : datetime(r.timestamp).day = day)
       IN {<<entry>> \o rest :
             entry \in trend_entries(strftime(of_day[1].timestamp), of_day),
             rest \in trends_of(days_left \ {day}, reports)}

\* The responses that get_mood_trends may return.
mood_trends(db, user, now, days) ==
  IF days < 7 \/ days > 90 THEN {UnprocessableTrends(user, now, days)}
  ELSE LET rows == select_MoodReport(db, user, datetime_sub(now, days))
           all_days == {datetime(r.timestamp).day : r \in DOMAIN rows}
       IN UNION {{[UnprocessableTrends(user, now, days) EXCEPT
                     !.status_code = 200, !.trends = trends] :
                  trends \in trends_of(all_days, reports)} :
                 reports \in order_by_timestamp(rows)}

\* GET /mood/trends?days=... by the client with device id `device_id` at
\* the time `now` of the server, handled with no other request in flight:
\* the dependency creates the User row of an unknown client.
get_mood_trends(device_id, now, days) ==
  /\ \A slot \in DOMAIN txs : txs[slot].phase = "idle"
  /\ store' = get_current_user(store, device_id)
  /\ \E response \in mood_trends(store', device_id, now, days) :
        read' = [response EXCEPT !.after = ncalls]
  /\ UNCHANGED <<last, ncalls, txs>>

Init ==
  /\ read = NoRead
  /\ store = EmptyStore
  /\ last = Handled("", SyncData, NoResponse, {})
  /\ ncalls = 0
  /\ txs = [slot \in Slots |-> Idle]

\* ------------------------------------------------------- request bodies

\* The sequences over S of length at most n.
SeqsUpTo(S, n) == UNION {[1..k -> S] : k \in 0..n}

\* The items of collection `key` in a sequence of <<key, item>> pairs, in order.
RECURSIVE ItemsOf(_, _)
ItemsOf(tagged, key) ==
  IF tagged = <<>> THEN <<>>
  ELSE (IF Head(tagged)[1] = key THEN <<Head(tagged)[2]>> ELSE <<>>)
       \o ItemsOf(Tail(tagged), key)

\* No two entries of a dailyStats mapping have the same key.
DistinctKeys(entries) ==
  \A i, j \in 1..Len(entries) :
     entries[i].date_str = entries[j].date_str => i = j

\* The request bodies made of at most n of the <<key, item>> pairs in
\* `universe`; dailyStats is a JSON object, so its keys are distinct.
Batches(universe, n) ==
  {data \in {[k \in SyncKeySet |-> ItemsOf(q, k)] : q \in SeqsUpTo(universe, n)} :
     DistinctKeys(data.dailyStats)}

\* A VideoSessionCreate item with the given id, watchedSeconds and times.
VideoSessionCreate(id, watched, ms, ended) ==
  [id |-> id, title |-> None, channel |-> None, watchedSeconds |-> watched,
   timestamp |-> ms, startedAt |-> ms, endedAt |-> ended, ratedAt |-> None]

\* A BrowserSessionCreate item.
BrowserSessionCreate(id, total, ms) ==
  [id |-> id, startedAt |-> ms, endedAt |-> None,
   entryUrl |-> None, totalDurationSeconds |-> total]

\* Bodies of video and browser sessions with valid times: the same external
\* id may come twice in a batch and with different field values.
SessionBodies ==
  Batches({<<"videoSessions", VideoSessionCreate("a", 1, 1, None)>>,
           <<"videoSessions", VideoSessionCreate("a", 2, 1, None)>>,
           <<"videoSessions", VideoSessionCreate("b", 1, 1, None)>>,
           <<"browserSessions", BrowserSessionCreate("a", 1, 1)>>,
           <<"browserSessions", BrowserSessionCreate("a", 2, 1)>>},
          MaxItems)

\* The sequences of at most one element of S.
Opt(S) == {<<>>} \cup {<<x>> : x \in S}

\* Keys of the dailyStats object, character by character: two dates, a month
\* 13 and a 29th of February in a year that is not a leap year.
Key_2024_01_01 == <<"2", "0", "2", "4", "-", "0", "1", "-", "0", "1">>

Key_2024_02_29 == <<"2", "0", "2", "4", "-", "0", "2", "-", "2", "9">>

Key_2024_13_01 == <<"2", "0", "2", "4", "-", "1", "3", "-", "0", "1">>

Key_2023_02_29 == <<"2", "0", "2", "3", "-", "0", "2", "-", "2", "9">>

\* One (date_str, stats_data) item of data.dailyStats.
DailyStatsCreate(date_str, total, videos) ==
  [date_str |-> date_str,
   stats_data |-> [totalSeconds |-> total, videoCount |-> videos]]

\* A ScrollEventCreate (and the like) item.
EventCreate(sessionId, ms) == [sessionId |-> sessionId, timestamp |-> ms]

\* Bodies of daily statistics, in the order of the JSON object: each key at
\* most once, unparsable keys before and between the dates, and a scroll
\* event, which is processed after the statistics.
DailyBodies ==
  {[SyncData EXCEPT !.dailyStats = b1 \o g1 \o b2 \o g2, !.scrollEvents = sc] :
     b1 \in Opt({DailyStatsCreate(Key_2024_13_01, 100, 1)}),
     g1 \in Opt({DailyStatsCreate(Key_2024_01_01, 100, 1),
                 DailyStatsCreate(Key_2024_01_01, 200, 2)}),
     b2 \in Opt({DailyStatsCreate(Key_2023_02_29, 100, 1)}),
     g2 \in Opt({DailyStatsCreate(Key_2024_02_29, 100, 1)}),
     sc \in Opt({EventCreate("s1", 1)})}

\* Urls, character by character: two with the https scheme, one with http,
\* one with another scheme and one without a scheme.
Url_https_one == <<"h", "t", "t", "p", "s", ":", "/", "/", "o", "n", "e">>

Url_https_two == <<"h", "t", "t", "p", "s", ":", "/", "/", "t", "w", "o">>

Url_http_one == <<"h", "t", "t", "p", ":", "/", "/", "o", "n", "e">>

Url_javascript == <<"j", "a", "v", "a", "s", "c", "r", "i", "p", "t", ":", "x">>

Url_no_scheme == <<"o", "n", "e", ".", "t", "v">>

\* A ProductiveUrlCreate item.
ProductiveUrlCreate(id, url, title, ms) ==
  [id |-> id, url |-> url, title |-> title, addedAt |-> ms]

\* Bodies in which a scroll event or a bookmark may carry a time that
\* datetime.fromtimestamp rejects, after a video session and daily
\* statistics that are valid.
AtomicBodies ==
  {[SyncData EXCEPT !.videoSessions = vs, !.dailyStats = ds,
                    !.scrollEvents = sc, !.productiveUrls = pu] :
     vs \in Opt({VideoSessionCreate("a", 1, 1, None)}),
     ds \in Opt({DailyStatsCreate(Key_2024_01_01, 100, 1),
                 DailyStatsCreate(Key_2024_01_01, 200, 2)}),
     sc \in Opt({EventCreate("s1", 1), EventCreate("s1", MaxTimeMs + 1)}),
     pu \in Opt({ProductiveUrlCreate("a", Url_https_one, "one", 1),
                 ProductiveUrlCreate("a", Url_https_two, "two", MaxTimeMs + 1)})}

\* Bodies of bookmarks: an external id may come twice in a batch, with
\* different url and title.
UrlBodies ==
  {[SyncData EXCEPT !.productiveUrls = p1 \o p2 \o p3] :
     p1 \in Opt({ProductiveUrlCreate("a", Url_https_one, "one", 1),
                 ProductiveUrlCreate("a", Url_https_two, "two", 2)}),
     p2 \in Opt({ProductiveUrlCreate("b", Url_https_one, "one", 1)}),
     p3 \in Opt({ProductiveUrlCreate("a", Url_https_one, "one", 1),
                 ProductiveUrlCreate("a", Url_https_two, "two", 2)})}

\* Bodies of one or two bookmarks, in either order of the external ids.
OverlapBodies ==
  {[SyncData EXCEPT !.productiveUrls = items] :
     items \in {<<ProductiveUrlCreate("a", Url_https_one, "one", 1)>>,
                <<ProductiveUrlCreate("a", Url_https_two, "two", 2)>>,
                <<ProductiveUrlCreate("a", Url_https_one, "one", 1),
                  ProductiveUrlCreate("b", Url_https_one, "one", 1)>>,
                <<ProductiveUrlCreate("b", Url_https_one, "one", 1),
                  ProductiveUrlCreate("a", Url_https_two, "two", 2)>>}}

\* The granular event collections.
EventKeys == PlainEventKeys \cup {"interventionEvents", "moodReports"}

\* The i-th item of a batch of collection `key`.
EventItem(key, i) ==
  LET ms == IF i % 2 = 1 THEN 1 ELSE MaxTimeMs
  IN CASE key = "interventionEvents" ->
            [sessionId |-> "s1", interventionType |-> "nudge",
             triggeredAt |-> ms, response |-> None, responseAt |-> None,
             responseTimeMs |-> None, userLeftYoutube |-> FALSE]
       [] key = "moodReports" ->
            [sessionId |-> "s1", timestamp |-> ms, reportType |-> "post",
             mood |-> 3, intention |-> None, satisfaction |-> None]
       [] OTHER -> EventCreate("s1", ms)

\* Bodies of n events: in one granular collection, or in each of them.
EventBodies ==
  {[SyncData EXCEPT ![k] = [i \in 1..n |-> EventItem(k, i)]] :
     k \in EventKeys, n \in 0..MaxItems}
  \cup {[k \in SyncKeySet |->
           IF k \in EventKeys THEN [i \in 1..n |-> EventItem(k, i)] ELSE <<>>] :
          n \in 1..MaxItems}

\* The i-th item of a batch of collection `key`, valid for its loop.
ItemFor(key, i) ==
  CASE key = "videoSessions" -> VideoSessionCreate("a", 1, 1, None)
    [] key = "browserSessions" -> BrowserSessionCreate("a", 1, 1)
    [] key = "productiveUrls" -> ProductiveUrlCreate("a", Url_https_one, "one", 1)
    [] OTHER -> EventItem(key, i)

\* The body whose collections hold len[k] items, for the keys k of `len`.
BodyOfLengths(len) ==
  [k \in SyncKeySet |->
     IF k \in DOMAIN len THEN [i \in 1..len[k] |-> ItemFor(k, i)] ELSE <<>>]

\* Bodies around the limits: one collection of exactly its limit or of one
\* more, and two and three collections over their limits at once.
LimitBodies ==
  {BodyOfLengths([k \in {key} |-> limits[key] + over]) :
     key \in DOMAIN limits, over \in {0, 1}}
  \cup {BodyOfLengths([k \in {"videoSessions", "scrollEvents"} |-> limits[k] + 1]),
         BodyOfLengths([k \in {"browserSessions", "moodReports", "productiveUrls"}
                         |-> limits[k] + 1]),
         BodyOfLengths([k \in {"pageEvents", "productiveUrls"}
                         |-> IF k = "pageEvents" THEN limits[k] ELSE limits[k] + 1])}

\* The dailyStats key of the first of January of year 2000 + i, i < 8000.
NewYearKey(i) ==
  LET y == 2000 + i
  IN <<DigitChar(y \div 1000), DigitChar((y \div 100) % 10),
       DigitChar((y \div 10) % 10), DigitChar(y % 10),
       "-", "0", "1", "-", "0", "1">>

\* Bodies whose dailyStats object has one or two entries or one entry more
\* than the largest limit of validate_sync_payload, all with valid dates,
\* alone or with a scroll event.
DailyLimitBodies ==
  {[SyncData EXCEPT
      !.dailyStats = [i \in 1..n |-> DailyStatsCreate(NewYearKey(i), total, 1)],
      !.scrollEvents = sc] :
     n \in {1, 2, max_events_per_sync + 1}, total \in {100, 200},
     sc \in Opt({EventCreate("s1", 1)})}

\* One valid item of collection `key`.
OwnerItem(key) ==
  IF key = "dailyStats" THEN DailyStatsCreate(Key_2024_01_01, 100, 1)
  ELSE ItemFor(key, 1)

\* Bodies with one item: in one collection, for each of the eleven, or in
\* every collection; and the same with statistics of other values for the
\* same date.
OwnerBodies ==
  LET other == <<DailyStatsCreate(Key_2024_01_01, 200, 2)>>
      full == [key \in SyncKeySet |-> <<OwnerItem(key)>>]
  IN {[SyncData EXCEPT ![key] = <<OwnerItem(key)>>] : key \in SyncKeySet}
     \cup {[SyncData EXCEPT !.dailyStats = other], full,
            [full EXCEPT !.dailyStats = other]}

\* Bodies of at most one video session and of browser sessions in either
\* order of their external ids.
OverlapSessionBodies ==
  {[SyncData EXCEPT !.videoSessions = vs, !.browserSessions = bs] :
     vs \in Opt({VideoSessionCreate("a", 1, 1, None)}),
     bs \in {<<>>,
             <<BrowserSessionCreate("a", 1, 1)>>,
             <<BrowserSessionCreate("a", 1, 1), BrowserSessionCreate("b", 1, 1)>>,
             <<BrowserSessionCreate("b", 1, 1), BrowserSessionCreate("a", 1, 1)>>}}

\* Bodies of statistics for one date or for two dates in either order, with
\* values that tell the submissions apart.
OverlapDailyBodies ==
  {[SyncData EXCEPT !.dailyStats = entries] :
     entries \in {<<DailyStatsCreate(Key_2024_01_01, 100, 1)>>,
                  <<DailyStatsCreate(Key_2024_01_01, 200, 2)>>,
                  <<DailyStatsCreate(Key_2024_01_01, 100, 1),
                    DailyStatsCreate(Key_2024_02_29, 100, 1)>>,
                  <<DailyStatsCreate(Key_2024_02_29, 200, 2),
                    DailyStatsCreate(Key_2024_01_01, 200, 2)>>}}

\* Bodies of at most one video session and at most one day's statistics,
\* with two values for the first date.
ReadBodies ==
  {[SyncData EXCEPT !.videoSessions = vs, !.dailyStats = ds] :
     vs \in Opt({VideoSessionCreate("a", 1, 1, None)}),
     ds \in Opt({DailyStatsCreate(Key_2024_01_01, 100, 1),
                 DailyStatsCreate(Key_2024_01_01, 200, 2),
                 DailyStatsCreate(Key_2024_02_29, 100, 1)})}

\* The dates that clients ask the statistics of: two dates and a month 13.
ReadKeys == {Key_2024_01_01, Key_2024_02_29, Key_2024_13_01}

\* Bodies whose url fields carry a url with an accepted scheme, with another
\* scheme, or without one: the entry url of a browser session and the url
\* of a bookmark, with or without a scroll event.
UrlFieldBodies ==
  {[SyncData EXCEPT !.browserSessions = bs, !.productiveUrls = pu,
                    !.scrollEvents = sc] :
     bs \in Opt({[BrowserSessionCreate("a", 1, 1) EXCEPT !.entryUrl = entryUrl] :
                   entryUrl \in {None, Some(Url_http_one), Some(Url_javascript)}}),
     pu \in Opt({ProductiveUrlCreate("a", url, "one", 1) :
                   url \in {Url_https_one, Url_javascript, Url_no_scheme}}),
     sc \in Opt({EventCreate("s1", 1)})}

\* Titles, character by character: a short one, one with a form feed, one
\* with a newline, one of exactly the maximum length and one of one more.
Titles ==
  {<<"o", "k">>, <<"a", "\f", "b">>, <<"a", "\n", "b">>,
   [i \in 1..title_max_length |-> "x"], [i \in 1..title_max_length + 1 |-> "x"]}

\* Bodies of at most one video session, with or without a title, and at
\* most one scroll event.
TitleBodies ==
  {[SyncData EXCEPT !.videoSessions = vs, !.scrollEvents = sc] :
     vs \in Opt({[VideoSessionCreate(id, 1, 1, None) EXCEPT !.title = title] :
                   id \in ExtIds, title \in {None} \cup {Some(t) : t \in Titles}}),
     sc \in Opt({EventCreate("s1", 1)})}

\* Bodies of first requests: empty, or one video session.
FirstBodies ==
  {[SyncData EXCEPT !.videoSessions = vs] :
     vs \in Opt({VideoSessionCreate(id, 1, 1, None) : id \in ExtIds})}

\* Keys of the dailyStats object around 7 March 2024: a leap day, the days
\* before and after it, and the days at both ends of a fortnight.
Key_2024_02_22 == <<"2", "0", "2", "4", "-", "0", "2", "-", "2", "2">>

Key_2024_02_23 == <<"2", "0", "2", "4", "-", "0", "2", "-", "2", "3">>

Key_2024_03_01 == <<"2", "0", "2", "4", "-", "0", "3", "-", "0", "1">>

Key_2024_03_07 == <<"2", "0", "2", "4", "-", "0", "3", "-", "0", "7">>

Key_2024_03_08 == <<"2", "0", "2", "4", "-", "0", "3", "-", "0", "8">>

\* Bodies with statistics of at most one day of February and at most one
\* day of March, of less and of more than a minute.
WeeklyBodies ==
  {[SyncData EXCEPT !.dailyStats = older \o newer] :
     older \in Opt({DailyStatsCreate(Key_2024_02_22, 600, 5),
                    DailyStatsCreate(Key_2024_02_23, 0, 0),
                    DailyStatsCreate(Key_2024_02_23, 90, 1),
                    DailyStatsCreate(Key_2024_02_29, 30, 2)}),
     newer \in Opt({DailyStatsCreate(Key_2024_03_01, 90, 3),
                    DailyStatsCreate(Key_2024_03_07, 600, 4),
                    DailyStatsCreate(Key_2024_03_08, 30, 1)})}

\* The days on which the comparison is asked for.
Todays == {fromisoformat(Key_2024_03_07).date, fromisoformat(Key_2024_03_08).date}

\* Eleven channels and the external ids of one video session of each.
ChannelNames ==
  <<"c01", "c02", "c03", "c04", "c05", "c06", "c07", "c08", "c09", "c10", "c11">>

ChannelSessionIds ==
  <<"v01", "v02", "v03", "v04", "v05", "v06", "v07", "v08", "v09", "v10", "v11">>

\* A VideoSessionCreate item with a channel.
ChannelSession(id, channel, watched, ms) ==
  [VideoSessionCreate(id, watched, ms, None) EXCEPT !.channel = channel]

\* Bodies of video sessions with channels: one session of each of eleven
\* channels, the two least watched for the same time; or at most two
\* sessions with or without a channel, on the day of the epoch or just
\* before it.
ChannelBodies ==
  {[SyncData EXCEPT !.videoSessions =
      [i \in 1 .. Len(ChannelNames) |->
         ChannelSession(ChannelSessionIds[i], Some(ChannelNames[i]),
                        IF i = 1 THEN 120 ELSE 60 * i, 1)]]}
  \cup
  {[SyncData EXCEPT !.videoSessions = first \o second] :
     first \in Opt({ChannelSession("a", None, 60, 1),
                    ChannelSession("a", Some("c01"), 600, 1)}),
     second \in Opt({ChannelSession("b", Some("c12"), 6000, -1)})}

\* The body of the sessions of another client: one session of a channel.
OtherChannelBodies ==
  {[SyncData EXCEPT !.videoSessions =
      <<ChannelSession("a", Some("c12"), 6000, 1)>>]}

\* The days on which the top channels are asked for, and the lengths of the
\* trailing window asked for: too short, one day, two days.
ChannelTodays ==
  {[year |-> 1970, month |-> 1, day |-> 2], [year |-> 1970, month |-> 1, day |-> 3]}

ChannelDays == {0, 1, 2}

\* An InterventionEventCreate item.
InterventionEventCreate(interventionType, ms, response, responseTimeMs, left) ==
  [sessionId |-> "s1", interventionType |-> interventionType,
   triggeredAt |-> ms, response |-> response, responseAt |-> None,
   responseTimeMs |-> responseTimeMs, userLeftYoutube |-> left]

\* Intervention events: ignored, dismissed after which the user left, left
\* without a response, and one of another type before the epoch.
InterventionItems ==
  {InterventionEventCreate("nudge", 1, None, None, FALSE),
   InterventionEventCreate("nudge", 1, Some("dismissed"), Some(5), TRUE),
   InterventionEventCreate("nudge", 0, Some(""), Some(0), TRUE),
   InterventionEventCreate("timer", -1, Some("engaged"), Some(2), FALSE)}

\* Bodies of at most two intervention events.
InterventionBodies ==
  {[SyncData EXCEPT !.interventionEvents = first \o second] :
     first \in Opt(InterventionItems), second \in Opt(InterventionItems)}

\* The body of the events of another client.
OtherInterventionBodies ==
  {[SyncData EXCEPT !.interventionEvents =
      <<InterventionEventCreate("nudge", 1, Some("dismissed"), Some(7), TRUE)>>]}

\* The times at which summaries are asked for: the first instant of
\* 2 January 1970 and a millisecond later.
SummaryNows ==
  {[day |-> 1, second |-> 0, microsecond |-> 0],
   [day |-> 1, second |-> 0, microsecond |-> 1000]}

\* The lengths of the trailing window asked for: too short, one and two days.
SummaryDays == {0, 1, 2}

\* A MoodReportCreate item.
MoodReportCreate(reportType, ms, mood, intention, satisfaction) ==
  [sessionId |-> "s1", timestamp |-> ms, reportType |-> reportType,
   mood |-> mood, intention |-> intention, satisfaction |-> satisfaction]

\* Mood reports before and after watching and of a third type, at the epoch
\* and the moment before it.
MoodItems ==
  {MoodReportCreate("pre", 1, 2, Some("relax"), None),
   MoodReportCreate("pre", 0, 0, None, Some(0)),
   MoodReportCreate("post", 1, 5, Some(""), Some(4)),
   MoodReportCreate("post", -1, 3, Some("learn"), Some(3)),
   MoodReportCreate("during", 1, 4, None, None)}

\* Bodies of no or one mood report, of two reports before watching, and of
\* one before and one after.
MoodBodies ==
  {[SyncData EXCEPT !.moodReports = reports] :
     reports \in Opt(MoodItems)
                 \cup {<<MoodReportCreate("pre", 1, 2, Some("relax"), None),
                         MoodReportCreate("pre", 1, 3, Some("learn"), Some(5))>>,
                       <<MoodReportCreate("pre", 1, 2, Some("relax"), None),
                         MoodReportCreate("post", 1, 5, Some(""), Some(4))>>}}

\* The body of the reports of another client.
OtherMoodBodies ==
  {[SyncData EXCEPT !.moodReports =
      <<MoodReportCreate("post", 1, 1, Some("scroll"), Some(1))>>]}

\* The times at which mood is asked for: the first instant of 8 January
\* 1970 and a millisecond later.
MoodNows ==
  {[day |-> 7, second |-> 0, microsecond |-> 0],
   [day |-> 7, second |-> 0, microsecond |-> 1000]}

\* The query parameters asked for: trends of 6 days, which is too short,
\* and of 7 days; pages of no report, of one and of many, from the first or
\* the second report on.
MoodDays == {6, 7}

MoodLimits == {0, 1, 100}

MoodOffsets == {0, 1}

\* Content-Length headers of 100 bytes, of 5 MB and of one byte more.
Length_100 == <<"1", "0", "0">>

Length_5242880 == <<"5", "2", "4", "2", "8", "8", "0">>

Length_5242881 == <<"5", "2", "4", "2", "8", "8", "1">>

\* The framings of a request body: a Content-Length header followed by that
\* many bytes, or no such header and a body of any length sent in chunks.
Framings ==
  {[content_length |-> Some(text), body_bytes |-> int(text)] :
     text \in {Length_100, Length_5242880, Length_5242881}}
  \cup {[content_length |-> None, body_bytes |-> int(text)] :
          text \in {Length_100, Length_5242881}}

\* Bodies of statistics for one date or for two dates in either order,
\* alone or followed by a bookmark whose time datetime.fromtimestamp
\* rejects.
FailureBodies ==
  {[SyncData EXCEPT !.dailyStats = entries, !.productiveUrls = pu] :
     entries \in {<<DailyStatsCreate(Key_2024_01_01, 100, 1)>>,
                  <<DailyStatsCreate(Key_2024_01_01, 100, 1),
                    DailyStatsCreate(Key_2024_02_29, 100, 1)>>,
                  <<DailyStatsCreate(Key_2024_02_29, 200, 2),
                    DailyStatsCreate(Key_2024_01_01, 200, 2)>>},
     pu \in Opt({ProductiveUrlCreate("a", Url_https_one, "one", MaxTimeMs + 1)})}

\* ------------------------------------------------------- specifications

\* Sequential requests that carry video and browser sessions.
Next == \E u \in Users, data \in SessionBodies : sync_all(u, data)

Spec == Init /\ [][Next]_vars

\* Sequential requests that carry daily statistics.
NextDaily == \E u \in Users, data \in DailyBodies : sync_all(u, data)

SpecDaily == Init /\ [][NextDaily]_vars

\* Sequential requests, some with an item that raises inside the try block.
NextAtomic == \E u \in Users, data \in AtomicBodies : sync_all(u, data)

SpecAtomic == Init /\ [][NextAtomic]_vars

\* Sequential requests that carry bookmarks, and soft deletes between them.
NextUrls ==
  \/ \E u \in Users, data \in UrlBodies : sync_all(u, data)
  \/ \E u \in Users, id \in ExtIds : soft_delete(u, id)

SpecUrls == Init /\ [][NextUrls]_vars

\* Requests that carry bookmarks and overlap, each advancing from one await
\* of the bookmarks loop to the next, and soft deletes between their steps.
NextOverlap ==
  \/ \E slot \in Slots, u \in Users, data \in OverlapBodies : begin_sync(slot, u, data)
  \/ \E slot \in Slots : next_productive_url(slot)
  \/ \E slot \in Slots : commit_sync(slot)
  \/ \E slot \in Slots : deadlock_detected(slot)
  \/ \E u \in Users, id \in ExtIds : soft_delete(u, id)

SpecOverlap == Init /\ [][NextOverlap]_vars

\* Requests that carry video and browser sessions and overlap, each
\* advancing from one await of its loops to the next.
NextOverlapSessions ==
  \/ \E slot \in Slots, u \in Users, data \in OverlapSessionBodies :
        begin_sync(slot, u, data)
  \/ \E slot \in Slots : next_video_session(slot)
  \/ \E slot \in Slots : next_browser_session(slot)
  \/ \E slot \in Slots : commit_sync(slot)
  \/ \E slot \in Slots : deadlock_detected(slot)

SpecOverlapSessions == Init /\ [][NextOverlapSessions]_vars

\* Requests that carry daily statistics and overlap, each advancing from one
\* upsert to the next.
NextOverlapDaily ==
  \/ \E slot \in Slots, u \in Users, data \in OverlapDailyBodies :
        begin_sync(slot, u, data)
  \/ \E slot \in Slots : next_daily_stats(slot)
  \/ \E slot \in Slots : commit_sync(slot)
  \/ \E slot \in Slots : deadlock_detected(slot)

SpecOverlapDaily == Init /\ [][NextOverlapDaily]_vars

\* Sequential requests that carry a video session and daily statistics,
\* and reads of a day's statistics between them.
NextRead ==
  \/ \E u \in Users, data \in ReadBodies : sync_all(u, data)
  \/ \E u \in Users, date_str \in ReadKeys : get_daily_stats(u, date_str)

SpecRead == Init /\ [][NextRead]_vars

\* Sequential requests whose url fields may carry a url that is not http(s).
NextUrlFields == \E u \in Users, data \in UrlFieldBodies : sync_all(u, data)

SpecUrlFields == Init /\ [][NextUrlFields]_vars

\* Sequential requests of one client whose video sessions carry titles.
NextTitles == \E data \in TitleBodies : sync_all("u1", data)

SpecTitles == Init /\ [][NextTitles]_vars

\* Requests of clients that may be unknown, overlapping from the select of
\* get_current_user on.
NextFirst ==
  \/ \E slot \in Slots, u \in Users, data \in FirstBodies :
        get_current_user_select(slot, u, data)
  \/ \E slot \in Slots : get_current_user_commit(slot)
  \/ \E slot \in Slots : next_video_session(slot)
  \/ \E slot \in Slots : commit_sync(slot)

SpecFirst == Init /\ [][NextFirst]_vars

\* Sequential requests that carry daily statistics, and weekly comparisons
\* asked by one of the clients.
NextWeekly ==
  \/ \E u \in Users, data \in WeeklyBodies : sync_all(u, data)
  \/ \E today \in Todays : get_weekly_comparison("u1", today)

SpecWeekly == Init /\ [][NextWeekly]_vars

\* Sequential requests of two clients that carry video sessions of
\* channels, and the top channels asked by the first client.
NextChannels ==
  \/ \E data \in ChannelBodies : sync_all("u1", data)
  \/ \E data \in OtherChannelBodies : sync_all("u2", data)
  \/ \E today \in ChannelTodays, days \in ChannelDays :
        get_top_channels("u1", today, days)

SpecChannels == Init /\ [][NextChannels]_vars

\* Sequential requests of two clients that carry intervention events, and
\* the summaries asked by the first client.
NextInterventions ==
  \/ \E data \in InterventionBodies : sync_all("u1", data)
  \/ \E data \in OtherInterventionBodies : sync_all("u2", data)
  \/ \E now \in SummaryNows, days \in SummaryDays :
        get_intervention_summary("u1", now, days)

SpecInterventions == Init /\ [][NextInterventions]_vars

\* Sequential requests of two clients that carry mood reports, and the
\* reports and trends asked by the first client.
NextMood ==
  \/ \E data \in MoodBodies : sync_all("u1", data)
  \/ \E data \in OtherMoodBodies : sync_all("u2", data)
  \/ \E now \in MoodNows, n \in MoodLimits, offset \in MoodOffsets :
        get_mood_reports("u1", now, 7, n, offset)
  \/ \E now \in MoodNows, days \in MoodDays : get_mood_trends("u1", now, days)

SpecMood == Init /\ [][NextMood]_vars

\* Sequential requests through the middleware, with bodies up to and above
\* the size limit.
NextSizes ==
  \/ \E slot \in Slots, u \in Users, data \in FirstBodies, framing \in Framings :
        receive(slot, u, data, framing.content_length, framing.body_bytes)
  \/ \E slot \in Slots : limit_request_size(slot)

SpecSizes == Init /\ [][NextSizes]_vars

\* Requests of one client that overlap and may fail: by a deadlock of their
\* upserts, or at a bookmark whose time is out of range.
NextFailures ==
  \/ \E slot \in Slots, data \in FailureBodies : begin_sync(slot, "u1", data)
  \/ \E slot \in Slots : next_daily_stats(slot)
  \/ \E slot \in Slots : next_productive_url(slot)
  \/ \E slot \in Slots : commit_sync(slot)
  \/ \E slot \in Slots : deadlock_detected(slot)

SpecFailures == Init /\ [][NextFailures]_vars

\* Sequential requests that carry granular events.
NextEvents == \E u \in Users, data \in EventBodies : sync_all(u, data)

SpecEvents == Init /\ [][NextEvents]_vars

\* Sequential requests of one client with collections around the limits.
NextLimits == \E data \in LimitBodies : sync_all("u1", data)

SpecLimits == Init /\ [][NextLimits]_vars

\* Sequential requests of one client with small and very large dailyStats
\* objects.
NextDailyLimit == \E data \in DailyLimitBodies : sync_all("u1", data)

SpecDailyLimit == Init /\ [][NextDailyLimit]_vars

\* Sequential requests of two clients that submit the same items.
NextOwners == \E u \in Users, data \in OwnerBodies : sync_all(u, data)

SpecOwners == Init /\ [][NextOwners]_vars

\* Bodies with items in several collections: one item in every collection,
\* sessions with a bookmark, statistics with events and a bookmark (one
\* event with a time that cannot be converted), and two bookmarks in either
\* order.
OrderBodies ==
  {[BodyOfLengths([k \in SyncKeySet \ {"dailyStats"} |-> 1])
      EXCEPT !.dailyStats = <<DailyStatsCreate(Key_2024_01_01, 100, 1)>>],
   [SyncData EXCEPT !.videoSessions = <<VideoSessionCreate("a", 1, 1, None),
                                        VideoSessionCreate("b", 1, 1, None)>>,
                    !.browserSessions = <<BrowserSessionCreate("b", 1, 1)>>,
                    !.productiveUrls = <<ProductiveUrlCreate("b", Url_https_one, "one", 1)>>],
   [SyncData EXCEPT !.dailyStats = <<DailyStatsCreate(Key_2024_01_01, 200, 2)>>,
                    !.scrollEvents = <<EventCreate("s1", 1), EventCreate("s1", 2)>>,
                    !.moodReports = <<EventItem("moodReports", 1)>>,
                    !.productiveUrls = <<ProductiveUrlCreate("a", Url_https_one, "two", 1)>>],
   [SyncData EXCEPT !.pageEvents = <<EventCreate("s1", 1), EventCreate("s1", MaxTimeMs + 1)>>],
   [SyncData EXCEPT !.productiveUrls = <<ProductiveUrlCreate("a", Url_https_one, "one", 1),
                                         ProductiveUrlCreate("b", Url_https_one, "one", 1)>>],
   [SyncData EXCEPT !.productiveUrls = <<ProductiveUrlCreate("b", Url_https_one, "two", 1),
                                         ProductiveUrlCreate("a", Url_https_one, "two", 1)>>]}

\* Requests of one user that carry items in several collections and may
\* overlap, each advancing one iteration at a time.
NextOrder ==
  \/ \E slot \in Slots, data \in OrderBodies : begin_sync(slot, "u1", data)
  \/ \E slot \in Slots : next_video_session(slot)
  \/ \E slot \in Slots : next_browser_session(slot)
  \/ \E slot \in Slots : next_daily_stats(slot)
  \/ \E slot \in Slots : next_event(slot)
  \/ \E slot \in Slots : next_productive_url(slot)
  \/ \E slot \in Slots : commit_sync(slot)
  \/ \E slot \in Slots : deadlock_detected(slot)

SpecOrder == Init /\ [][NextOrder]_vars

\* Bodies in which an external id comes once or twice in videoSessions, in
\* browserSessions and in productiveUrls, the second time with other values.
DuplicateBodies ==
  {[SyncData EXCEPT !.videoSessions = vs, !.browserSessions = bs,
                    !.productiveUrls = pu] :
     vs \in {<<>>,
             <<VideoSessionCreate("a", 1, 1, None)>>,
             <<VideoSessionCreate("a", 1, 1, None), VideoSessionCreate("a", 2, 2, None)>>},
     bs \in {<<>>,
             <<BrowserSessionCreate("a", 1, 1)>>,
             <<BrowserSessionCreate("a", 1, 1), BrowserSessionCreate("a", 2, 2)>>},
     pu \in {<<>>,
             <<ProductiveUrlCreate("a", Url_https_one, "one", 1)>>,
             <<ProductiveUrlCreate("a", Url_https_one, "one", 1),
               ProductiveUrlCreate("a", Url_https_two, "two", 2)>>}}

\* Sequential requests of two users whose batches repeat an external id.
NextDuplicates == \E u \in Users, data \in DuplicateBodies : sync_all(u, data)

SpecDuplicates == Init /\ [][NextDuplicates]_vars

\* Bodies of bookmarks whose items differ in url, title and added time.
FrameBodies ==
  {[SyncData EXCEPT !.productiveUrls = p1 \o p2] :
     p1 \in Opt({ProductiveUrlCreate("a", Url_https_one, "one", 1),
                 ProductiveUrlCreate("a", Url_https_two, "two", 2)}),
     p2 \in Opt({ProductiveUrlCreate("b", Url_https_one, "one", 1),
                 ProductiveUrlCreate("a", Url_https_two, "two", 2)})}

\* Sequential requests of two users that carry bookmarks, with soft deletes
\* and suggestions of stored bookmarks between them.
NextFrame ==
  \/ \E u \in Users, data \in FrameBodies : sync_all(u, data)
  \/ \E id \in ExtIds : soft_delete("u1", id)
  \/ \E id \in ExtIds, clicked \in BOOLEAN : record_suggestion("u1", id, clicked)

SpecFrame == Init /\ [][NextFrame]_vars

\* A stored bookmark of "u1".
StoredUrl(id, url, title, ms, deleted) ==
  [ProductiveUrl("u1", ProductiveUrlCreate(id, url, title, ms))
     EXCEPT !.deleted_at = IF deleted THEN Some(fromtimestamp(1)) ELSE None]

\* productive_urls as requests that overlapped left it before the unique
\* constraint was added (002_add_unique_productive_url.py removes such
\* rows): two or three rows of one (user, external id), live or soft-deleted.
DuplicateUrlTables ==
  LET rows == {StoredUrl("a", url_title[1], url_title[2], 1, deleted) :
                 url_title \in {<<Url_https_one, "one">>, <<Url_https_two, "two">>},
                 deleted \in BOOLEAN}
  IN {SetToBag(some) : some \in {S \in SUBSET rows : Cardinality(S) \in {2, 3}}}

InitDuplicateUrls ==
  /\ read = NoRead
  /\ store \in {[EmptyStore EXCEPT !.users = {"u1"}, !.productive_urls = table] :
                  table \in DuplicateUrlTables}
  /\ last = Handled("", SyncData, NoResponse, {})
  /\ ncalls = 0
  /\ txs = [slot \in Slots |-> Idle]

\* Bodies of at most one bookmark for each external id, with url and title
\* that no stored row has.
LegacyUrlBodies ==
  {[SyncData EXCEPT !.productiveUrls = p1 \o p2] :
     p1 \in Opt({ProductiveUrlCreate("a", Url_http_one, "new", 2),
                 ProductiveUrlCreate("a", Url_http_one, "newer", 2)}),
     p2 \in Opt({ProductiveUrlCreate("b", Url_https_one, "one", 1)})}

\* Sequential requests against a table that holds several rows of one
\* (user, external id), with soft deletes between them.
NextDuplicateUrls ==
  \/ \E u \in Users, data \in LegacyUrlBodies : sync_all(u, data)
  \/ \E id \in ExtIds : soft_delete("u1", id)

SpecDuplicateUrls == InitDuplicateUrls /\ [][NextDuplicateUrls]_vars

\* video_sessions as two overlapping requests of "u1" that both carried the
\* session "a" leave it (the table has no unique constraint): two rows of
\* one (user, external session id), equal or with different values.
DuplicateSessionTables ==
  {SetToBag({VideoSession("u1", VideoSessionCreate("a", 1, 1, None))})
     (+) SetToBag({VideoSession("u1", VideoSessionCreate("a", watched, 1, None))}) :
     watched \in 1..2}

InitDuplicateSessions ==
  /\ read = NoRead
  /\ store \in {[EmptyStore EXCEPT !.users = {"u1"}, !.video_sessions = table] :
                  table \in DuplicateSessionTables}
  /\ last = Handled("", SyncData, NoResponse, {})
  /\ ncalls = 0
  /\ txs = [slot \in Slots |-> Idle]

\* Bodies of one or two video sessions, with and without a browser session.
RetryBodies ==
  {[SyncData EXCEPT !.videoSessions = vs, !.browserSessions = bs] :
     vs \in {<<VideoSessionCreate("a", 1, 1, None)>>,
             <<VideoSessionCreate("b", 1, 1, None)>>,
             <<VideoSessionCreate("b", 1, 1, None), VideoSessionCreate("a", 2, 1, None)>>,
             <<VideoSessionCreate("a", 1, 1, None), VideoSessionCreate("b", 2, 1, None)>>},
     bs \in Opt({BrowserSessionCreate("a", 1, 1), BrowserSessionCreate("b", 1, 1)})}

\* Sequential requests of two users against a table that holds two rows of
\* one (user, external session id).
NextDuplicateSessions == \E u \in Users, data \in RetryBodies : sync_all(u, data)

SpecDuplicateSessions == InitDuplicateSessions /\ [][NextDuplicateSessions]_vars

\* A time in epoch milliseconds that datetime.fromtimestamp does not take.
OutOfRange == MaxTimeMs + 1

\* Bodies of at most one video session, browser session, scroll event and
\* bookmark, each with a time that can be converted or with one that cannot.
TimeBodies ==
  {[SyncData EXCEPT !.videoSessions = vs, !.browserSessions = bs,
                    !.scrollEvents = sc, !.productiveUrls = pu] :
     vs \in Opt({VideoSessionCreate("a", 1, 1, None),
                 VideoSessionCreate("a", 2, OutOfRange, None)}),
     bs \in Opt({BrowserSessionCreate("a", 1, 1),
                 BrowserSessionCreate("a", 2, OutOfRange)}),
     sc \in Opt({EventCreate("s1", OutOfRange)}),
     pu \in Opt({ProductiveUrlCreate("a", Url_https_one, "one", 1),
                 ProductiveUrlCreate("a", Url_https_two, "two", OutOfRange)})}

\* Sequential requests of two users whose items carry times in and out of
\* the range of the conversion.
NextTimes == \E u \in Users, data \in TimeBodies : sync_all(u, data)

SpecTimes == Init /\ [][NextTimes]_vars

\* Values of an optional time of an item: omitted or null, 0, times before
\* and after the epoch, and one out of the range of the conversion.
OptionalTimes ==
  {None, Some(0), Some(-1), Some(1), Some(MaxTimeMs), Some(OutOfRange)}

\* The body of one video session, one browser session and one intervention
\* event with the optional times x and y.
OptionalTimeBody(id, x, y) ==
  [SyncData EXCEPT
     !.videoSessions =
        <<[VideoSessionCreate(id, 1, 1, x) EXCEPT !.ratedAt = y]>>,
     !.browserSessions =
        <<[BrowserSessionCreate(id, 1, 1) EXCEPT !.endedAt = y]>>,
     !.interventionEvents =
        <<[EventItem("interventionEvents", 1) EXCEPT !.responseAt = x]>>]

OptionalTimeBodies ==
  {OptionalTimeBody(id, x, y) : id \in ExtIds, x \in OptionalTimes, y \in OptionalTimes}

\* Sequential requests of one user whose items carry optional times.
NextOptionalTimes == \E data \in OptionalTimeBodies : sync_all("u1", data)

SpecOptionalTimes == Init /\ [][NextOptionalTimes]_vars

\* Intervention events of one time: the user left without a response, left
\* after dismissing, stayed after dismissing, and an ignored event of
\* another type.
AnsweredItems ==
  {InterventionEventCreate("nudge", 1, None, None, TRUE),
   InterventionEventCreate("nudge", 1, Some("dismissed"), Some(5), TRUE),
   InterventionEventCreate("nudge", 1, Some("dismissed"), Some(5), FALSE),
   InterventionEventCreate("timer", 1, None, None, FALSE)}

\* Bodies of at most two of these events.
AnsweredBodies ==
  {[SyncData EXCEPT !.interventionEvents = first \o second] :
     first \in Opt(AnsweredItems), second \in Opt(AnsweredItems)}

\* Sequential syncs of intervention events of one client and lists of its
\* events asked for on 2 January 1970, of every type or of one, in pages of
\* one and of a hundred.
NextInterventionEvents ==
  \/ \E data \in AnsweredBodies : sync_all("u1", data)
  \/ \E days \in {0, 1}, intervention_type \in {None, Some("nudge")},
        n \in {1, 100}, offset \in {0} :
        get_intervention_events("u1", [day |-> 1, second |-> 0, microsecond |-> 0],
                                days, intervention_type, n, offset)

SpecInterventionEvents == Init /\ [][NextInterventionEvents]_vars

Key_1970_01_01 == <<"1", "9", "7", "0", "-", "0", "1", "-", "0", "1">>

Key_1969_11_01 == <<"1", "9", "6", "9", "-", "1", "1", "-", "0", "1">>

\* Bodies of at most one video session (with an external id or with the
\* empty string as id, rated and ended or not), browser session and day's
\* statistics, inside and outside the thirty days before 2 January 1970.
RestoreBodies ==
  {[SyncData EXCEPT !.videoSessions = vs, !.browserSessions = bs, !.dailyStats = ds] :
     vs \in Opt({VideoSessionCreate("a", 1, 1, None),
                 [VideoSessionCreate("b", 2, 2, Some(2)) EXCEPT !.ratedAt = Some(1)],
                 VideoSessionCreate("", 1, 1, None)}),
     bs \in Opt({BrowserSessionCreate("a", 1, 1)}),
     ds \in Opt({DailyStatsCreate(Key_1970_01_01, 100, 1),
                 DailyStatsCreate(Key_1970_01_01, 200, 2),
                 DailyStatsCreate(Key_1969_11_01, 100, 1)})}

\* Sequential syncs of two clients, restores on 2 January 1970, and syncs of
\* what a restore returned.
NextRestore ==
  \/ \E u \in Users, data \in RestoreBodies : sync_all(u, data)
  \/ \E u \in Users : restore_data(u, [day |-> 1, second |-> 0, microsecond |-> 0])
  \/ \E u \in Users : sync_restored(u)

SpecRestore == Init /\ [][NextRestore]_vars

\* ------------------------------------------------------------ properties

\* The number of rows of `table` that are in the set `rows`.
CountRows(table, rows) == BagCardinality(Restrict(table, rows))

\* The external ids of a collection of session items, in order.
IdsOf(items) == [i \in 1..Len(items) |-> items[i].id]

\* C1: after any sequence of sequential sync_all calls from the empty store,
\* video_sessions holds at most one row for each (user, external session id).
C1_OneVideoSessionPerUserAndId ==
  \A u \in Users, id \in ExtIds :
     CountRows(store.video_sessions,
               {r \in DOMAIN store.video_sessions :
                  r.user_id = u /\ r.ext_session_id = id}) <= 1

\* C1 witness: a second request has carried an external id that its user had
\* already stored, and was answered with success.
C1_Witness ==
  /\ ncalls = 2
  /\ last.resp.status_code = 200
  /\ last.data.videoSessions # <<>>
  /\ last.resp.syncedCounts["videoSessions"] = 0
  /\ \E r \in DOMAIN store.video_sessions :
        r.user_id = last.user /\ r.ext_session_id = last.data.videoSessions[1].id

\* A request that carries, for the same user, the same external session ids
\* as the successful request before it.
Resubmission ==
  /\ last.resp.status_code = 200
  /\ last'.user = last.user
  /\ IdsOf(last'.data.videoSessions) = IdsOf(last.data.videoSessions)
  /\ IdsOf(last'.data.browserSessions) = IdsOf(last.data.browserSessions)

\* C2: a request that submits the session ids of the successful request
\* before it again, whatever field values it carries, inserts no row into
\* video_sessions and browser_sessions and changes no row of them.
C2_ResubmissionChangesNothing ==
  [][Resubmission =>
       /\ store'.video_sessions = store.video_sessions
       /\ store'.browser_sessions = store.browser_sessions]_vars

\* C2 witness: after two requests the store holds the first values of a video
\* session and of a browser session that the last request carried with other
\* values.
C2_Witness ==
  /\ ncalls = 2
  /\ last.resp.status_code = 200
  /\ \E i \in 1..Len(last.data.videoSessions) :
       \E r \in DOMAIN store.video_sessions :
          /\ r.user_id = last.user
          /\ r.ext_session_id = last.data.videoSessions[i].id
          /\ r.watched_seconds # last.data.videoSessions[i].watchedSeconds
  /\ \E i \in 1..Len(last.data.browserSessions) :
       \E r \in DOMAIN store.browser_sessions :
          /\ r.user_id = last.user
          /\ r.ext_session_id = last.data.browserSessions[i].id
          /\ r.total_duration_seconds # last.data.browserSessions[i].totalDurationSeconds

\* C3: a successful request that submits the batch of the successful request
\* before it again reports the same videoSessions and browserSessions counts,
\* the skipped duplicates being counted like the inserted items.
C3_SameCountsOnResubmission ==
  [][(/\ last.resp.status_code = 200
      /\ last'.resp.status_code = 200
      /\ last'.user = last.user
      /\ last'.data = last.data)
     => /\ last'.resp.syncedCounts["videoSessions"]
             = last.resp.syncedCounts["videoSessions"]
        /\ last'.resp.syncedCounts["browserSessions"]
             = last.resp.syncedCounts["browserSessions"]]_vars

\* The entries of a dailyStats object whose key parses to date d.
EntriesFor(entries, d) ==
  {i \in 1..Len(entries) :
     /\ fromisoformat(entries[i].date_str).ok
     /\ fromisoformat(entries[i].date_str).date = d}

\* The entries of a dailyStats object whose key does not parse.
BadKeys(entries) ==
  {i \in 1..Len(entries) : ~fromisoformat(entries[i].date_str).ok}

\* The dates that the keys of a dailyStats object parse to.
DatesOf(entries) ==
  {fromisoformat(entries[i].date_str).date : i \in 1..Len(entries) \ BadKeys(entries)}

\* The greatest element of a non-empty set of numbers.
Max(S) == CHOOSE x \in S : \A y \in S : y <= x

\* The daily_stats rows of user u for date d.
StatsRows(table, u, d) == {r \in DOMAIN table : r.user_id = u /\ r.date = d}

\* daily_stats holds at most one row for each (user, date).
OneDailyStatsRowPerUserAndDate ==
  \A r \in DOMAIN store.daily_stats :
     CountRows(store.daily_stats,
               StatsRows(store.daily_stats, r.user_id, r.date)) = 1

\* A step of a successful request leaves, for each date it submits, the row
\* of its user with the submitted aggregates, and every other row as it was.
LastWriteWins ==
  last'.resp.status_code = 200 =>
    LET entries == last'.data.dailyStats
        u == last'.user
    IN /\ \A d \in DatesOf(entries) :
             LET e == entries[Max(EntriesFor(entries, d))].stats_data
             IN \A r \in StatsRows(store'.daily_stats, u, d) :
                   /\ r.total_seconds = e.totalSeconds
                   /\ r.video_count = e.videoCount
       /\ \A d \in DatesOf(entries) : StatsRows(store'.daily_stats, u, d) # {}
       /\ \A r \in DOMAIN store.daily_stats :
             (r.user_id # u \/ r.date \notin DatesOf(entries))
                => r \in DOMAIN store'.daily_stats
       /\ \A r \in DOMAIN store'.daily_stats :
             (r.user_id # u \/ r.date \notin DatesOf(entries))
                => r \in DOMAIN store.daily_stats

\* C4: after any sequence of successful requests there is at most one
\* daily_stats row for each (user, date), and its aggregate columns are those
\* of the latest committed submission for that date: no column keeps an
\* earlier value.
C4_DailyStatsLastWriteWins ==
  /\ []OneDailyStatsRowPerUserAndDate
  /\ [][LastWriteWins]_vars

\* C4 witness: the last request overwrote a row of 2024-01-01 that held 100
\* seconds and one video; the row now holds the 200 seconds and two videos
\* that the request carried.
C4_Witness ==
  /\ last.resp.status_code = 200
  /\ \E old \in last.overwritten :
        /\ old.date = fromisoformat(Key_2024_01_01).date
        /\ old.total_seconds = 100 /\ old.video_count = 1
        /\ \E r \in StatsRows(store.daily_stats, last.user, old.date) :
              r.total_seconds = 200 /\ r.video_count = 2

\* The rows of collection `key` that the request wrote are in the store.
EventsCommitted(key) ==
  RowCount(store'[TableOf[key]])
    = RowCount(store[TableOf[key]]) + Len(last'.data[key])

\* C6: a request with dailyStats keys that do not parse is answered with
\* success; each such key is one entry of errors and stores no row; the
\* other entries and the scroll events are committed; syncedCounts.dailyStats
\* plus the number of errors is the number of entries.
C6_BadDateIsSoftError ==
  [][LET entries == last'.data.dailyStats
         u == last'.user
     IN BadKeys(entries) # {} =>
          /\ last'.resp.status_code = 200 /\ last'.resp.success
          /\ Len(last'.resp.errors) = Cardinality(BadKeys(entries))
          /\ \A i \in BadKeys(entries) :
                Cardinality({j \in 1..Len(last'.resp.errors) :
                               last'.resp.errors[j]
                                 = <<"Invalid date format", entries[i].date_str>>}) = 1
          /\ last'.resp.syncedCounts["dailyStats"] + Len(last'.resp.errors)
                = Len(entries)
          /\ {r.date : r \in {x \in DOMAIN store'.daily_stats : x.user_id = u}}
                = {r.date : r \in {x \in DOMAIN store.daily_stats : x.user_id = u}}
                    \cup DatesOf(entries)
          /\ LastWriteWins
          /\ EventsCommitted("scrollEvents")]_vars

\* C6 witness: a request with two unparsable keys, a date and a scroll event
\* was answered with success, two errors and counts of one.
C6_Witness ==
  /\ last.resp.status_code = 200
  /\ Len(last.resp.errors) = 2
  /\ last.resp.syncedCounts["dailyStats"] = 1
  /\ last.resp.syncedCounts["scrollEvents"] = 1
  /\ Len(last.data.dailyStats) = 3
  /\ store.scroll_events # EmptyBag

\* The productive_urls rows of user u with external id `id`.
UrlRows(table, u, id) == {r \in DOMAIN table : r.user_id = u /\ r.ext_id = id}

\* The last item of a batch of bookmarks that carries the id of item i.
LastWithId(items, i) == items[Max({j \in 1..Len(items) : items[j].id = items[i].id})]

\* Every item of a request answered with success is in the store after it.
AllCommitted ==
  LET u == last'.user
      data == last'.data
  IN /\ \A i \in 1..Len(data.videoSessions) :
           \E r \in DOMAIN store'.video_sessions :
              r.user_id = u /\ r.ext_session_id = data.videoSessions[i].id
     /\ LastWriteWins
     /\ \A k \in EventKeys : EventsCommitted(k)
     /\ \A i \in 1..Len(data.productiveUrls) :
           \E r \in UrlRows(store'.productive_urls, u, data.productiveUrls[i].id) :
              /\ r.deleted_at = None
              /\ r.url = LastWithId(data.productiveUrls, i).url
              /\ r.title = LastWithId(data.productiveUrls, i).title

\* C5: a request in which an item raises is answered with a failure and
\* leaves every table as it was, the valid items before the failing one and
\* the daily statistics upserts included; a request answered with success
\* has all of its items in the store.
C5_AllOrNothing ==
  [][/\ (\E i \in 1..Len(last'.data.scrollEvents) :
            ~fromtimestamp_ok(last'.data.scrollEvents[i].timestamp))
          => last'.resp.status_code = 500
     /\ IF last'.resp.status_code # 200
        THEN \A t \in ChildTables : store'[t] = store[t]
        ELSE AllCommitted]_vars

\* C5 witness: a request with a video session and daily statistics, both
\* new to the store, failed on a later item, and neither table has a row.
C5_Witness ==
  /\ last.resp.status_code = 500
  /\ last.data.videoSessions # <<>>
  /\ last.data.dailyStats # <<>>
  /\ last.user \in store.users
  /\ store.video_sessions = EmptyBag
  /\ store.daily_stats = EmptyBag

\* C7: a successful request that names the external id of a soft-deleted
\* bookmark of its user inserts no row for that id; the row is live again
\* and holds the submitted url and title.
C7_SoftDeletedUrlIsRestored ==
  [][(ncalls' = ncalls + 1 /\ last'.resp.status_code = 200) =>
       LET u == last'.user
           items == last'.data.productiveUrls
       IN \A i \in 1..Len(items) :
             (\E old \in UrlRows(store.productive_urls, u, items[i].id) :
                 old.deleted_at # None)
             => /\ CountRows(store'.productive_urls,
                             UrlRows(store'.productive_urls, u, items[i].id))
                     = CountRows(store.productive_urls,
                                 UrlRows(store.productive_urls, u, items[i].id))
                /\ \A r \in UrlRows(store'.productive_urls, u, items[i].id) :
                      /\ r.deleted_at = None
                      /\ r.url = LastWithId(items, i).url
                      /\ r.title = LastWithId(items, i).title]_vars

\* C7 witness: the last request overwrote a soft-deleted bookmark; the one
\* row of its id is live and holds another url than before the request.
C7_Witness ==
  /\ last.resp.status_code = 200
  /\ \E old \in last.overwritten :
        /\ old.deleted_at # None
        /\ CountRows(store.productive_urls,
                     UrlRows(store.productive_urls, last.user, old.ext_id)) = 1
        /\ \A r \in UrlRows(store.productive_urls, last.user, old.ext_id) :
              r.deleted_at = None /\ r.url # old.url /\ r.title # old.title

\* The bag of the elements of a sequence.
RECURSIVE BagOf(_)
BagOf(seq) == IF seq = <<>> THEN EmptyBag ELSE SetToBag({Head(seq)}) (+) BagOf(Tail(seq))

\* The row that an item of granular collection `key` is stored as.
EventRow(u, key, item) ==
  CASE key = "interventionEvents" -> InterventionEvent(u, item)
    [] key = "moodReports" -> MoodReport(u, item)
    [] OTHER -> PlainEvent(u, item)

\* C9: a request with n items in a granular event collection is answered
\* with success and count n, and adds one row for each item to the table,
\* whatever the table holds: the items of an earlier request are added again.
C9_EventsAreAppended ==
  [][\A k \in EventKeys :
        LET items == last'.data[k]
        IN /\ last'.resp.status_code = 200
           /\ last'.resp.syncedCounts[k] = Len(items)
           /\ RowCount(store'[TableOf[k]])
                 = RowCount(store[TableOf[k]]) + Len(items)
           /\ store'[TableOf[k]]
                 = store[TableOf[k]]
                     (+) BagOf([i \in 1..Len(items) |-> EventRow(last'.user, k, items[i])])]_vars

\* C9 witness: the same user has sent the same two scroll events twice, and
\* scroll_events holds four rows, two of each event.
C9_Witness ==
  /\ ncalls = 2
  /\ last.resp.status_code = 200
  /\ Len(last.data.scrollEvents) = 2
  /\ last.resp.syncedCounts["scrollEvents"] = 2
  /\ RowCount(store.scroll_events) = 4
  /\ \A r \in DOMAIN store.scroll_events :
        r.user_id = last.user /\ store.scroll_events[r] = 2

\* The collections of a body that hold more items than the documented limit
\* of their kind.
OverLimit(data) ==
  {k \in {"videoSessions"} : Len(data[k]) > 200}
  \cup {k \in {"browserSessions", "productiveUrls"} : Len(data[k]) > 100}
  \cup {k \in EventKeys : Len(data[k]) > 1000}

\* C10: a request is answered 413 "Payload too large" exactly when one of
\* its limited collections holds more items than its limit (200 video
\* sessions, 100 browser sessions, 100 bookmarks, 1000 events of a kind); a
\* collection of exactly the limit is accepted; the detail names every
\* collection over its limit; and a rejected request writes no row.
C10_PayloadLimits ==
  [][LET over == OverLimit(last'.data)
         detail == last'.resp.detail
     IN /\ (last'.resp.status_code = 413) <=> (over # {})
        /\ over = {} => last'.resp.status_code = 200
        /\ over # {} =>
             /\ detail.msg = "Payload too large"
             /\ {detail.items[i].key : i \in 1..Len(detail.items)} = over
             /\ Len(detail.items) = Cardinality(over)
             /\ \A i \in 1..Len(detail.items) :
                   detail.items[i].len = Len(last'.data[detail.items[i].key])
             /\ \A t \in ChildTables : store'[t] = store[t]]_vars

\* C10 witness: a request with exactly 1000 scroll events was accepted and
\* stored, and the last request, with three collections over their limits,
\* was rejected with a detail that names the three.
C10_Witness ==
  /\ RowCount(store.scroll_events) = 1000
  /\ last.resp.status_code = 413
  /\ Len(last.resp.detail.items) = 3
  /\ Len(last.data.browserSessions) = 101

\* C8: after any requests to sync_all, one after the other or overlapping,
\* productive_urls holds at most one row for each (user, external id), the
\* soft-deleted rows counted.
C8_OneProductiveUrlPerUserAndId ==
  \A r \in DOMAIN store.productive_urls :
     CountRows(store.productive_urls,
               UrlRows(store.productive_urls, r.user_id, r.ext_id)) = 1

\* C8 witness: of two overlapping requests that added the same new external
\* id for the same user, one has committed its row and the other has failed
\* on the unique constraint.
C8_Witness ==
  /\ last.resp.status_code = 500
  /\ last.resp.detail.items = <<"IntegrityError">>
  /\ \E i \in 1..Len(last.data.productiveUrls) :
        CountRows(store.productive_urls,
                  UrlRows(store.productive_urls, last.user,
                          last.data.productiveUrls[i].id)) = 1

\* C11: a request that is rejected for an item count over a limit leaves the
\* whole store as it was: no row of any table is inserted, the User row of
\* the requesting client included.
C11_RejectedRequestTouchesNothing ==
  [][last'.resp.status_code = 413 => store' = store]_vars

\* C12: every collection of a request has a maximum item count, the
\* dailyStats object included: a request whose dailyStats object holds more
\* entries than the largest of the limits is rejected with 413 and none of
\* its entries is stored.
C12_DailyStatsIsLimited ==
  [][Len(last'.data.dailyStats) > max_events_per_sync =>
       /\ last'.resp.status_code = 413
       /\ store'.daily_stats = store.daily_stats]_vars

\* The rows of `db` that `u` owns: the User row of u and the rows of the
\* child tables with u's user_id.
OwnRows(db, u) ==
  [t \in DOMAIN db |->
     IF t = "users" THEN db.users \cap {u}
     ELSE Restrict(db[t], {r \in DOMAIN db[t] : r.user_id = u})]

\* What a request of `u` with body `data` at time `now` answers and leaves
\* committed when the database holds `db`.
Outcome(db, u, data, now) ==
  LET db0 == get_current_user(db, u)
      e == request_validation(data)
      v == validate_sync_payload(data)
      s == sync_collections(NewSession(db0, now), u, data, 1)
  IN IF e.exc # "none" THEN [db |-> db0, resp |-> Unprocessable(e)]
     ELSE IF v.exc # "none" THEN [db |-> db0, resp |-> PayloadTooLarge(v)]
     ELSE IF s.exc # "none" THEN [db |-> rollback(db0, s), resp |-> SyncFailed(s)]
     ELSE [db |-> commit(db0, s), resp |-> SyncResponse(s)]

\* C13: what a request does for its user is the same whatever rows the
\* other users hold: its response (counts, errors, success or failure) and
\* the rows of its user afterwards are those of the same request against a
\* database that holds the rows of its user only; a browser session of
\* another user with the same external id neither suppresses nor fails the
\* insert.
C13_OtherUsersRowsDoNotMatter ==
  [][LET u == last'.user
         alone == Outcome(OwnRows(store, u), u, last'.data, ncalls')
     IN /\ last'.resp = alone.resp
        /\ OwnRows(store', u) = OwnRows(alone.db, u)]_vars

\* The rows of `table` that `u` does not own.
NotOwnedBy(table, u) == Restrict(table, {r \in DOMAIN table : r.user_id # u})

\* C14: every row that a request inserts or modifies carries the id of the
\* requesting user: in every table the rows of the other users are after the
\* request exactly what they were before it (none inserted, updated or
\* deleted), and the only User row it may add is the requester's.
C14_OnlyOwnRowsAreWritten ==
  [][/\ \A t \in ChildTables :
           NotOwnedBy(store'[t], last'.user) = NotOwnedBy(store[t], last'.user)
     /\ store.users \subseteq store'.users
     /\ store'.users \ store.users \subseteq {last'.user}]_vars

\* C14 witness: the last request wrote rows of its user to the tables (the
\* browser session apart, whose external id the other user holds), while the
\* other user holds statistics of the same date with other values, a video
\* session with the same external id and a bookmark with the same external
\* id.
C14_Witness ==
  /\ last.resp.status_code = 200
  /\ \A t \in ChildTables \ {"browser_sessions"} :
        \E r \in DOMAIN store[t] : r.user_id = last.user
  /\ \E r, o \in DOMAIN store.daily_stats :
        /\ r.user_id = last.user /\ o.user_id # last.user
        /\ r.date = o.date /\ r.total_seconds # o.total_seconds
  /\ \E r, o \in DOMAIN store.video_sessions :
        r.user_id = last.user /\ o.user_id # last.user
        /\ r.ext_session_id = o.ext_session_id
  /\ \E r, o \in DOMAIN store.productive_urls :
        r.user_id = last.user /\ o.user_id # last.user /\ r.ext_id = o.ext_id

\* C15: whatever the interleaving of two overlapping requests of a user that
\* both submit a video session with the same external id, the store holds at
\* most one row of video_sessions for that (user, id).
C15_NoDuplicateVideoSessionUnderRace ==
  \A u \in Users, id \in ExtIds :
     RowCount(select_VideoSession(store, u, id)) <= 1

\* C16: a request whose insert of a browser session loses the race for the
\* unique external id to an overlapping request is not answered with an
\* error: no response is the 500 of an IntegrityError.
C16_LostRaceIsNotAnError ==
  ~(/\ last.resp.status_code = 500
    /\ \E i \in 1..Len(last.resp.detail.items) :
          last.resp.detail.items[i] = "IntegrityError")

\* Whether `row` of daily_stats holds the aggregate columns of one submitted
\* entry for its date.
FromOneSubmission(row) ==
  \E data \in OverlapDailyBodies : \E i \in 1..Len(data.dailyStats) :
     LET entry == data.dailyStats[i]
     IN /\ fromisoformat(entry.date_str).date = row.date
        /\ entry.stats_data.totalSeconds = row.total_seconds
        /\ entry.stats_data.videoCount = row.video_count

\* Whether two dailyStats objects have two dates in common that they submit
\* in different orders.
OppositeOrders(mine, theirs) ==
  \E i, j \in 1..Len(mine) : \E k, l \in 1..Len(theirs) :
     /\ i < j /\ l < k
     /\ mine[i].date_str = theirs[k].date_str
     /\ mine[j].date_str = theirs[l].date_str

\* C17, as first stated: of two overlapping requests of a user that submit
\* statistics for the same date, both succeed: no request is answered 500.
C17_BothCallsSucceed == last.resp.status_code # 500

\* C17: whatever the interleaving of overlapping requests of a user that
\* submit statistics for the same dates, daily_stats holds exactly one row
\* for each (user, date) written and all its aggregate columns come from one
\* and the same submission; a request fails only when the database detects
\* a deadlock, and only against a request in flight that submits two common
\* dates in the other order; every other request succeeds.
C17_ConcurrentUpsertsKeepOneRow ==
  /\ [](/\ OneDailyStatsRowPerUserAndDate
        /\ \A r \in DOMAIN store.daily_stats : FromOneSubmission(r)
        /\ last.resp.status_code \in {0, 200, 500})
  /\ [][last'.resp.status_code = 500 =>
          /\ last'.resp.detail.items = <<"DeadlockDetected">>
          /\ \E o \in Slots :
                /\ txs[o].phase = "run" /\ txs'[o].phase = "run"
                /\ txs[o].user = last'.user
                /\ OppositeOrders(last'.data.dailyStats, txs[o].data.dailyStats)]_vars

\* C17 witness: the last request succeeded and its upsert overwrote the row
\* that a request which arrived after it had committed for the same date
\* with other values: the two overlapped, and one row is left.
C17_Witness ==
  /\ last.resp.status_code = 200
  /\ \E r \in DOMAIN store.daily_stats, o \in last.overwritten :
        /\ r.user_id = last.user /\ o.user_id = last.user /\ r.date = o.date
        /\ r.updated_at < o.updated_at
        /\ r.total_seconds # o.total_seconds
        /\ store.daily_stats[r] = 1

\* The rows of daily_stats in db of user u for the date that the key date_str
\* denotes; none for a key that does not parse.
RowsFor(db, u, date_str) ==
  IF fromisoformat(date_str).ok
  THEN StatsRows(db.daily_stats, u, fromisoformat(date_str).date)
  ELSE {}

\* C18: a successful request with one new video session and statistics for
\* one date d with totalSeconds = n reports syncedCounts.videoSessions = 1
\* and syncedCounts.dailyStats = 1; a read of d's statistics by the same user
\* while that request is the last one handled returns found = true with
\* totalSeconds = n; every read returns the stored row of its user and date;
\* and the row of a user and date changes only when a request of that user
\* with statistics for that date is committed.
C18_ReadReturnsLastSyncedStats ==
  [][/\ (/\ ncalls' # ncalls
         /\ last'.resp.status_code = 200
         /\ Len(last'.data.videoSessions) = 1
         /\ RowCount(select_VideoSession(store, last'.user,
                                         last'.data.videoSessions[1].id)) = 0
         /\ Len(last'.data.dailyStats) = 1
         /\ fromisoformat(last'.data.dailyStats[1].date_str).ok)
        => /\ last'.resp.syncedCounts["videoSessions"] = 1
           /\ last'.resp.syncedCounts["dailyStats"] = 1
     /\ (/\ ncalls' = ncalls
         /\ last.resp.status_code = 200
         /\ last.user = read'.user)
        => \A i \in 1..Len(last.data.dailyStats) :
              last.data.dailyStats[i].date_str = read'.date =>
                 /\ read'.status_code = 200
                 /\ read'.found
                 /\ read'.totalSeconds =
                      Some(last.data.dailyStats[i].stats_data.totalSeconds)
     /\ ncalls' = ncalls =>
           LET rows == RowsFor(store, read'.user, read'.date)
           IN /\ read'.status_code = 200 <=> fromisoformat(read'.date).ok
              /\ read'.found <=> rows # {}
              /\ \A r \in rows : read'.totalSeconds = Some(r.total_seconds)
     /\ \A u \in Users, date_str \in ReadKeys :
           RowsFor(store', u, date_str) # RowsFor(store, u, date_str) =>
              /\ ncalls' # ncalls
              /\ last'.resp.status_code = 200
              /\ last'.user = u
              /\ \E i \in 1..Len(last'.data.dailyStats) :
                    last'.data.dailyStats[i].date_str = date_str]_vars

\* C18 witness: the last request stored a new video session and replaced the
\* statistics of a date, reported 1 and 1, and the read that followed it, by
\* the same user for that date, found the submitted totalSeconds.
C18_Witness ==
  /\ last.resp.status_code = 200
  /\ Len(last.data.videoSessions) = 1
  /\ Len(last.data.dailyStats) = 1
  /\ last.resp.syncedCounts["videoSessions"] = 1
  /\ last.resp.syncedCounts["dailyStats"] = 1
  /\ last.overwritten # {}
  /\ read.after = ncalls
  /\ read.user = last.user
  /\ read.date = last.data.dailyStats[1].date_str
  /\ read.found
  /\ read.totalSeconds = Some(last.data.dailyStats[1].stats_data.totalSeconds)
  /\ \A r \in last.overwritten : Some(r.total_seconds) # read.totalSeconds

\* url.startswith(('http://', 'https://')) for an optional url.
IsHttpOrNull(url) == IF url = None THEN TRUE ELSE validate_url(url[1])

\* C19: a url field whose value does not start with http:// or https:// is
\* stored as null and the rest of the request is processed: no request is
\* rejected for such a value, and no stored entry_url or bookmark url is a
\* value of another scheme.
C19_BadUrlIsStoredAsNull ==
  [][/\ last'.resp.status_code = 200
     /\ \A r \in DOMAIN store'.browser_sessions : IsHttpOrNull(r.entry_url)
     /\ \A r \in DOMAIN store'.productive_urls : IsHttpOrNull(Some(r.url))]_vars

\* C20: every free-text field that is stored has had its non-printable
\* characters other than newline, carriage return and tab removed and is cut
\* to the maximum length of the field; over-long text is cut, not rejected:
\* no request is answered 422 and every stored title is what sanitize_string
\* makes of it.
C20_TextIsSanitizedAndTruncated ==
  [][/\ last'.resp.status_code = 200
     /\ \A r \in DOMAIN store'.video_sessions :
           r.title = sanitize_string(r.title, title_max_length)]_vars

\* C21: whatever the interleaving of overlapping first requests of a client,
\* every one of them proceeds as that client's user: none is answered with
\* the 500 of the insert that found the User row created by another request.
C21_EveryFirstRequestProceeds ==
  ~(last.resp.status_code = 500 /\ last.resp.detail.msg = "Internal Server Error")

\* The rows of user u in db whose date is between `newest` and `oldest` days
\* before `today`.
RowsOfDays(db, u, today, newest, oldest) ==
  Restrict(db.daily_stats,
           {r \in DOMAIN db.daily_stats :
              /\ r.user_id = u
              /\ toordinal(today) - toordinal(r.date) \in newest .. oldest})

\* The sum of a column over RowsOfDays.
SumOfDays(db, u, today, newest, oldest, column) ==
  or_0(func_sum(RowsOfDays(db, u, today, newest, oldest), column))

\* A step that answers a weekly comparison.
WeeklyAnswered ==
  read' # read /\ read'.endpoint = "get_weekly_comparison"

\* C22: a weekly comparison whose previous window sums to 0 seconds, with
\* rows or without, is answered with 200 and a change_percent of 0.0.
C22_NoPreviousTimeGivesZeroPercent ==
  [][WeeklyAnswered
     /\ SumOfDays(store', read'.user, read'.today, 7, 13, "total_seconds") = 0
     => read'.status_code = 200 /\ read'.change_percent = 0]_vars

\* A comparison answered with 0.0 for a previous window whose rows sum to 0
\* seconds while the current window has minutes.
C22_Witness ==
  /\ read.endpoint = "get_weekly_comparison"
  /\ read.after = ncalls
  /\ RowsOfDays(store, read.user, read.today, 7, 13) # <<>>
  /\ SumOfDays(store, read.user, read.today, 7, 13, "total_seconds") = 0
  /\ read.this_week_minutes > 0
  /\ read.change_percent = 0

\* C23: a weekly comparison whose previous window sums to more than 0
\* seconds answers the change of the summed seconds of the two windows,
\* (this - prev) / prev * 100, rounded to one decimal.
C23_PercentIsComputedOnSeconds ==
  [][LET this_seconds ==
           SumOfDays(store', read'.user, read'.today, 0, 6, "total_seconds")
         prev_seconds ==
           SumOfDays(store', read'.user, read'.today, 7, 13, "total_seconds")
     IN WeeklyAnswered /\ prev_seconds > 0
        => read'.change_percent
             = round_half_even(1000 * (this_seconds - prev_seconds),
                               prev_seconds)]_vars

\* C24: the current window is the 7 dates that end today, the previous
\* window the 7 dates that end the day before the current one starts, and a
\* weekly comparison sums each row of the requester of the last 14 dates in
\* the window of its date and no other row.
C24_WindowsAreTwoAdjacentWeeks ==
  [][WeeklyAnswered
     => LET t == read'.today
            u == read'.user
        IN /\ toordinal(t) - toordinal(this_week_start(t)) = 6
           /\ toordinal(this_week_start(t)) - toordinal(prev_week_end(t)) = 1
           /\ toordinal(prev_week_end(t)) - toordinal(prev_week_start(t)) = 6
           /\ read'.this_week_videos = SumOfDays(store', u, t, 0, 6, "video_count")
           /\ read'.prev_week_videos = SumOfDays(store', u, t, 7, 13, "video_count")
           /\ read'.this_week_videos + read'.prev_week_videos
                = SumOfDays(store', u, t, 0, 13, "video_count")
           /\ read'.this_week_minutes
                = SumOfDays(store', u, t, 0, 6, "total_seconds") \div 60
           /\ read'.prev_week_minutes
                = SumOfDays(store', u, t, 7, 13, "total_seconds") \div 60]_vars

\* A comparison over rows of the requester in both windows, answered while
\* another user has a row with videos inside the last 14 dates.
C24_Witness ==
  /\ read.endpoint = "get_weekly_comparison"
  /\ read.after = ncalls
  /\ read.this_week_videos > 0
  /\ read.prev_week_videos > 0
  /\ \E r \in DOMAIN store.daily_stats :
        /\ r.user_id # read.user
        /\ r.video_count > 0
        /\ toordinal(read.today) - toordinal(r.date) \in 0 .. 13

\* The rows of user u in db with a channel and a timestamp in the trailing
\* window of `days` days before `today`.
RowsOfWindow(db, u, today, days) ==
  Restrict(db.video_sessions,
           {r \in DOMAIN db.video_sessions :
              /\ r.user_id = u
              /\ r.channel # None
              /\ r.timestamp.us \div 1000
                   >= (toordinal(today) - days - 719163) * 86400000})

\* The seconds of user u watched on channel c in that window.
WatchedOn(db, u, today, days, c) ==
  LET rows == RowsOfWindow(db, u, today, days)
  IN or_0(func_sum(Restrict(rows, {r \in DOMAIN rows : r.channel = Some(c)}),
                   "watched_seconds"))

\* The channels of user u in that window.
ChannelsOf(db, u, today, days) ==
  {r.channel[1] : r \in DOMAIN RowsOfWindow(db, u, today, days)}

\* C25: the top channels answered are at most 10, one for each channel of
\* the requester's sessions of the window when there are no more than 10,
\* each channel once, in descending order of the seconds watched, and no
\* channel left out was watched longer than one that is listed.
C25_TopChannelsAreTheMostWatched ==
  [][read' # read /\ read'.endpoint = "get_top_channels"
       /\ read'.status_code = 200
     => LET u == read'.user
            t == read'.today
            d == read'.days
            res == read'.channels
            all == ChannelsOf(store', u, t, d)
            listed == {res[i].channel : i \in DOMAIN res}
        IN /\ Len(res) <= 10
           /\ Len(res) = IF Cardinality(all) <= 10 THEN Cardinality(all) ELSE 10
           /\ listed \subseteq all
           /\ Cardinality(listed) = Len(res)
           /\ \A i, j \in DOMAIN res :
                 i < j => WatchedOn(store', u, t, d, res[i].channel)
                            >= WatchedOn(store', u, t, d, res[j].channel)
           /\ \A c \in all \ listed : \A i \in DOMAIN res :
                 WatchedOn(store', u, t, d, c)
                   <= WatchedOn(store', u, t, d, res[i].channel)]_vars

\* Ten channels answered to a requester with sessions of more than ten
\* channels in the window, another of whose sessions has no channel.
C25_Witness ==
  /\ read.endpoint = "get_top_channels"
  /\ read.status_code = 200
  /\ read.after = ncalls
  /\ Len(read.channels) = 10
  /\ Cardinality(ChannelsOf(store, read.user, read.today, read.days)) > 10
  /\ \E r \in DOMAIN store.video_sessions :
        r.user_id = read.user /\ r.channel = None

\* The events of type t of user u in db triggered at or after the trailing
\* window of `days` days before `now`.
EventsOfType(db, u, now, days, t) ==
  Restrict(db.intervention_events,
           {e \in DOMAIN db.intervention_events :
              /\ e.user_id = u
              /\ e.intervention_type = t
              /\ datetime_ge(datetime(e.triggered_at), datetime_sub(now, days))})

\* C26: in an intervention summary the effectiveness rate of each type is
\* the number of its events after which the user left the platform divided
\* by the number of its events with a response, as a percentage, and 0 when
\* no event of the type has a response.
C26_EffectivenessIsOverResponses ==
  [][read' # read /\ read'.endpoint = "get_intervention_summary"
       /\ read'.status_code = 200
     => \A t \in DOMAIN read'.by_type :
          LET events == EventsOfType(store', read'.user, read'.now, read'.days, t)
              left == RowCount(Restrict(events,
                                 {e \in DOMAIN events : e.user_left_youtube}))
              responses == RowCount(Restrict(events,
                                      {e \in DOMAIN events : e.response # None}))
          IN read'.by_type[t].effectiveness_rate
               = IF responses = 0 THEN 0
                 ELSE round_half_even(1000 * left, responses)]_vars

\* The reports of user u in db of the day `day` (counted from 1 January
\* 1970) and of a type in `types`, at or after `days` days before `now`.
ReportsOfDay(db, u, now, days, day, types) ==
  Restrict(db.mood_reports,
           {r \in DOMAIN db.mood_reports :
              /\ r.user_id = u
              /\ r.report_type \in types
              /\ datetime(r.timestamp).day = day
              /\ datetime_ge(datetime(r.timestamp), datetime_sub(now, days))})

\* The average of the moods of a bag of reports, rounded to hundredths, or
\* None for no report.
MoodAverage(reports) ==
  IF DOMAIN reports = {} THEN None
  ELSE Some(round_half_even(100 * or_0(func_sum(reports, "mood")),
                            RowCount(reports)))

\* C27: each entry of the mood trends carries, for its date, the average of
\* the requester's 'pre' reports and the average of the 'post' reports of
\* that date, a report of another type entering neither, and no average
\* where there is no such report.
C27_TrendsAverageByType ==
  [][read' # read /\ read'.endpoint = "get_mood_trends"
       /\ read'.status_code = 200
     => \A i \in DOMAIN read'.trends :
          \E r \in DOMAIN store'.mood_reports :
            LET day == datetime(r.timestamp).day
            IN /\ read'.trends[i].date = strftime(r.timestamp)
               /\ read'.trends[i].avg_pre_mood
                    = MoodAverage(ReportsOfDay(store', read'.user, read'.now,
                                               read'.days, day, {"pre"}))
               /\ read'.trends[i].avg_post_mood
                    = MoodAverage(ReportsOfDay(store', read'.user, read'.now,
                                               read'.days, day, {"post"}))]_vars

\* The moods of the reports of type report_type among the returned ones.
ReturnedMoods(reports, report_type) ==
  LET chosen == SelectSeq(reports, LAMBDA r : r.reportType = report_type)
  IN [i \in DOMAIN chosen |-> chosen[i].mood]

\* C28: the mood_change answered with a page of mood reports is the average
\* mood of the returned 'post' reports minus that of the returned 'pre'
\* reports (to two decimals), and is null exactly when the page has no
\* 'pre' report or no 'post' report.
C28_MoodChangeIsPostMinusPre ==
  [][read' # read /\ read'.endpoint = "get_mood_reports"
       /\ read'.status_code = 200
     => LET pre == ReturnedMoods(read'.reports, "pre")
            post == ReturnedMoods(read'.reports, "post")
        IN /\ read'.mood_change = None <=> pre = <<>> \/ post = <<>>
           /\ read'.mood_change # None
                => read'.mood_change[1]
                     = round_half_even(
                         100 * (sum(post) * Len(pre) - sum(pre) * Len(post)),
                         Len(pre) * Len(post))]_vars

\* A page with reports of both types whose mood_change is not zero, and a
\* report of an earlier sync outside the page or of neither type.
C28_Witness ==
  /\ read.endpoint = "get_mood_reports"
  /\ read.status_code = 200
  /\ read.after = ncalls
  /\ ReturnedMoods(read.reports, "pre") # <<>>
  /\ ReturnedMoods(read.reports, "post") # <<>>
  /\ read.mood_change \notin {None, Some(0)}

\* C29: each request that reaches the route handler has a body of at most
\* max_request_size_mb megabytes, with or without a Content-Length header.
C29_LargeBodyNeverReachesHandler ==
  [][ncalls' # ncalls
     => \A slot \in Slots :
          txs[slot].phase = "received" /\ txs'[slot].phase = "idle"
          => txs[slot].body_bytes <= max_request_size_mb * 1024 * 1024]_vars

\* A response of the except branch of sync_all.
IsSyncFailure(resp) ==
  resp.status_code = 500 /\ resp.detail.msg = "Sync failed"

\* C30: the failure responses of sync_all are generic: two requests that
\* fail, whatever the internal errors that aborted them, get responses of
\* the same content.
C30_FailureResponsesAreTheSame ==
  [][IsSyncFailure(last.resp) /\ IsSyncFailure(last'.resp)
     => last'.resp = last.resp]_vars

\* The longest tail appended to a prefix in the inputs of sanitize_url.
MaxTail == 2

\* What the inputs of sanitize_url start with: nothing, each accepted scheme,
\* an upper-case scheme, another scheme, and an accepted scheme after a
\* space, after a form feed and with a form feed inside it.
UrlPrefixes ==
  {<<>>,
   <<"h", "t", "t", "p", ":", "/", "/">>,
   <<"h", "t", "t", "p", "s", ":", "/", "/">>,
   <<"H", "T", "T", "P", ":", "/", "/">>,
   <<"j", "a", "v", "a", "s", "c", "r", "i", "p", "t", ":">>,
   <<" ", "h", "t", "t", "p", ":", "/", "/">>,
   <<"\f", "h", "t", "t", "p", ":", "/", "/">>,
   <<"h", "t", "\f", "t", "p", "s", ":", "/", "/">>}

\* None and every prefix followed by at most MaxTail letters, spaces and
\* form feeds: the empty string and the strings of form feeds, which are
\* empty once cleaned, are among them.
UrlInputs ==
  {None} \cup {Some(prefix \o tail) :
                 prefix \in UrlPrefixes, tail \in SeqsUpTo({"a", " ", "\f"}, MaxTail)}

NextSanitizeUrl == \E value \in UrlInputs : call_sanitize_url(value)

SpecSanitizeUrl == Init /\ [][NextSanitizeUrl]_vars


\* The tables in the order in which the try block of sync_all writes them.
WriteOrder ==
  <<"video_sessions", "browser_sessions", "daily_stats", "scroll_events",
    "thumbnail_events", "page_events", "video_watch_events",
    "recommendation_events", "intervention_events", "mood_reports",
    "productive_urls">>

\* The place of a table in WriteOrder.
WriteRank(table) == CHOOSE n \in 1..Len(WriteOrder) : WriteOrder[n] = table

\* Whether the statements are in the order of WriteOrder.
InWriteOrder(ops) ==
  \A m, n \in 1..Len(ops) :
     m < n => WriteRank(ops[m].table) <= WriteRank(ops[n].table)

RowsWithId(table, u, id) ==
  {r \in DOMAIN table :
     /\ r.user_id = u
     /\ (IF "ext_id" \in DOMAIN r THEN r.ext_id ELSE r.ext_session_id) = id}

\* Whether two items of the sequence carry the external id.
Twice(items, id) ==
  \E m, n \in 1..Len(items) : m < n /\ items[m].id = id /\ items[n].id = id

\* C32: a batch that carries an external id twice in videoSessions, in
\* browserSessions or in productiveUrls is answered with success and leaves
\* exactly one row for that (user, id).
C32_DuplicateInBatchLeavesOneRow ==
  [][ncalls' = ncalls + 1
     => \A key \in {"videoSessions", "browserSessions", "productiveUrls"}, id \in ExtIds :
          Twice(last'.data[key], id)
          => /\ last'.resp.status_code = 200
             /\ CountRows(store'[TableOf[key]],
                          RowsWithId(store'[TableOf[key]], last'.user, id)) = 1]_vars

\* The external ids of the bookmarks of a batch.
UrlIds(data) == {data.productiveUrls[i].id : i \in 1..Len(data.productiveUrls)}

\* C33: a request that matches stored bookmarks changes at most url, title
\* and deleted_at of the matched rows: their added_at, times_suggested and
\* times_clicked stay, no row is added for a matched id, and every other
\* bookmark (of another user, or of an id absent from the batch) is left as
\* it was.
C33_MatchedUrlKeepsOtherColumns ==
  [][ncalls' = ncalls + 1 /\ last'.resp.status_code = 200
     => LET u == last'.user
            ids == UrlIds(last'.data)
        IN /\ \A r \in DOMAIN store.productive_urls :
                 IF r.user_id = u /\ r.ext_id \in ids
                 THEN /\ CountRows(store'.productive_urls,
                                   UrlRows(store'.productive_urls, u, r.ext_id))
                           = CountRows(store.productive_urls,
                                       UrlRows(store.productive_urls, u, r.ext_id))
                      /\ \E new \in UrlRows(store'.productive_urls, u, r.ext_id) :
                            \A c \in DOMAIN r \ {"url", "title", "deleted_at"} :
                               new[c] = r[c]
                 ELSE /\ r \in DOMAIN store'.productive_urls
                      /\ CopiesIn(r, store'.productive_urls)
                           = CopiesIn(r, store.productive_urls)
           /\ \A new \in DOMAIN store'.productive_urls :
                 \/ (new.user_id = u /\ new.ext_id \in ids)
                 \/ new \in DOMAIN store.productive_urls]_vars

\* A request has overwritten the bookmark of an id, stored with another
\* added time and suggested since, while the user holds a bookmark that the
\* batch does not name.
C33_Witness ==
  /\ last.resp.status_code = 200
  /\ \E old \in last.overwritten, new \in DOMAIN store.productive_urls :
        /\ new.user_id = old.user_id /\ new.ext_id = old.ext_id
        /\ new.url # old.url /\ new.title # old.title
        /\ new.times_suggested = 1 /\ new.times_clicked = 1
        /\ \E i \in 1..Len(last.data.productiveUrls) :
              /\ last.data.productiveUrls[i].id = old.ext_id
              /\ fromtimestamp(last.data.productiveUrls[i].addedAt) # new.added_at
  /\ \E other \in DOMAIN store.productive_urls :
        other.user_id = last.user /\ other.ext_id \notin UrlIds(last.data)

\* C34: when the table holds several rows of the (user, external id) of an
\* item, the request changes exactly one of them, a live one when there is
\* one and a soft-deleted one only when all are soft-deleted; that row takes
\* the item's url and title and is live, the other rows stay as they were and
\* no row is added.
C34_OneLiveRowIsUpdated ==
  [][ncalls' = ncalls + 1 /\ last'.resp.status_code = 200
     => LET u == last'.user
            items == last'.data.productiveUrls
        IN \A i \in 1..Len(items) :
              LET hit == UrlRows(store.productive_urls, u, items[i].id)
                  live == {r \in hit : r.deleted_at = None}
              IN CountRows(store.productive_urls, hit) >= 2
                 => \E r \in (IF live # {} THEN live ELSE hit) :
                       Restrict(store'.productive_urls,
                                UrlRows(store'.productive_urls, u, items[i].id))
                       = add(Restrict(store.productive_urls, hit) (-) SetToBag({r}),
                             [r EXCEPT !.url = items[i].url,
                                       !.title = items[i].title,
                                       !.deleted_at = None])]_vars

\* A request has updated a live row of an id of which the table holds a
\* soft-deleted row as well, and that row is still soft-deleted.
C34_Witness ==
  /\ last.resp.status_code = 200
  /\ \E old \in last.overwritten, dead \in DOMAIN store.productive_urls :
        /\ old.deleted_at = None
        /\ dead.user_id = old.user_id /\ dead.ext_id = old.ext_id
        /\ dead.deleted_at # None
        /\ \E new \in DOMAIN store.productive_urls :
              /\ new.user_id = old.user_id /\ new.ext_id = old.ext_id
              /\ new.deleted_at = None /\ new.url # old.url

\* C35: while video_sessions holds two rows of one (user, external session
\* id), every batch of that user that carries the id is answered 500 from
\* the except branch and nothing of it is committed, the first time and on
\* every retry.
C35_DuplicateRowsFailEveryBatch ==
  [][ncalls' = ncalls + 1
     => \A i \in 1..Len(last'.data.videoSessions) :
           CountRows(store.video_sessions,
                     RowsWithId(store.video_sessions, last'.user,
                                last'.data.videoSessions[i].id)) >= 2
           => /\ IsSyncFailure(last'.resp)
              /\ \A table \in ChildTables : store'[table] = store[table]]_vars

\* The retry of a batch that carries the id of the two rows, after other
\* items, has failed like the first attempt, and nothing of either is stored.
C35_Witness ==
  /\ ncalls = 2
  /\ IsSyncFailure(last.resp)
  /\ last.resp.detail.items = <<"MultipleResultsFound">>
  /\ Len(last.data.videoSessions) = 2
  /\ last.data.videoSessions[1].id = "b"
  /\ last.data.videoSessions[2].id = "a"
  /\ RowsWithId(store.video_sessions, last.user, "b") = {}
  /\ CountRows(store.video_sessions,
               RowsWithId(store.video_sessions, last.user, "a")) = 2

\* The collections of the bodies whose items carry a required time.
TimedKeys == {"videoSessions", "browserSessions", "scrollEvents", "productiveUrls"}

\* Whether a required time of the item of collection `key` cannot be
\* converted.
Unconvertible(key, item) ==
  CASE key = "videoSessions" ->
         ~fromtimestamp_ok(item.startedAt) \/ ~fromtimestamp_ok(item.timestamp)
    [] key = "browserSessions" -> ~fromtimestamp_ok(item.startedAt)
    [] key = "productiveUrls" -> ~fromtimestamp_ok(item.addedAt)
    [] OTHER -> ~fromtimestamp_ok(item.timestamp)

\* Whether the loop over `key` builds a row from item i of the batch of user
\* u against database db: a session whose id is stored, or comes earlier in
\* the batch, is skipped before, and a bookmark that matches a row is
\* assigned to without a look at addedAt.
BuildsRow(db, u, data, key, i) ==
  LET id == data[key][i].id
      earlier == \E j \in 1..(i - 1) : data[key][j].id = id
  IN CASE key = "videoSessions" ->
            ~earlier /\ RowsWithId(db.video_sessions, u, id) = {}
       [] key = "browserSessions" ->
            ~earlier /\ \A r \in DOMAIN db.browser_sessions : r.ext_session_id # id
       [] key = "productiveUrls" ->
            ~earlier /\ UrlRows(db.productive_urls, u, id) = {}
       [] OTHER -> TRUE

\* The request has taken the except branch and no table has changed.
FailedWhole ==
  /\ IsSyncFailure(last'.resp)
  /\ last'.resp.errors = <<>>
  /\ \A table \in ChildTables : store'[table] = store[table]

\* C36, as the code has it: a request fails as a whole (500, no row of the
\* batch committed, no soft error) exactly when it builds a row from an item
\* whose time cannot be converted; an item with such a time that is skipped
\* as a stored session, or that matches a stored bookmark, is not converted
\* and does not fail the request.
C36_ConvertedBadTimeFailsTheBatch ==
  [][ncalls' = ncalls + 1 /\ last'.resp.status_code \notin {413, 422}
     => IF \E key \in TimedKeys : \E i \in 1..Len(last'.data[key]) :
              /\ Unconvertible(key, last'.data[key][i])
              /\ BuildsRow(store, last'.user, last'.data, key, i)
        THEN FailedWhole /\ last'.resp.detail.items = <<"ValueError">>
        ELSE last'.resp.status_code = 200]_vars

\* A request with a convertible session and bookmark and an event whose time
\* cannot be converted has failed, and nothing of it is stored.
C36_Witness ==
  /\ IsSyncFailure(last.resp)
  /\ last.resp.detail.items = <<"ValueError">>
  /\ last.data.videoSessions # <<>>
  /\ ~Unconvertible("videoSessions", last.data.videoSessions[1])
  /\ last.data.productiveUrls # <<>>
  /\ ~Unconvertible("productiveUrls", last.data.productiveUrls[1])
  /\ last.data.scrollEvents # <<>>
  /\ Unconvertible("scrollEvents", last.data.scrollEvents[1])
  /\ \A table \in ChildTables : store[table] = EmptyBag

\* C36 as stated: every request with an item whose time cannot be converted
\* fails as a whole.
C36_AnyBadTimeFailsTheBatch ==
  [][ncalls' = ncalls + 1 /\ last'.resp.status_code \notin {413, 422}
     => ((\E key \in TimedKeys : \E i \in 1..Len(last'.data[key]) :
            Unconvertible(key, last'.data[key][i]))
         => FailedWhole)]_vars

\* Whether the stored value of an optional time is what the item's value x
\* asks for: null for an omitted or null value and for 0, the time of x
\* milliseconds after the epoch for any other integer.
StoredAsAsked(stored, x) ==
  /\ stored = None <=> (x = None \/ x = Some(0))
  /\ x # None /\ x # Some(0) => stored = Some([us |-> x[1] * 1000])

\* C37: in every row that a request stores, an optional client time
\* (VideoSession endedAt and ratedAt, BrowserSession endedAt,
\* InterventionEvent responseAt) is null exactly when the item left it out,
\* carried null or carried 0, and is the time of the item's value otherwise.
C37_OptionalTimeIsNullOnlyForFalsy ==
  [][ncalls' = ncalls + 1 /\ last'.resp.status_code = 200
     => LET u == last'.user
            data == last'.data
        IN /\ \A i \in 1..Len(data.videoSessions) :
                 \A r \in RowsWithId(store'.video_sessions, u, data.videoSessions[i].id)
                          \ DOMAIN store.video_sessions :
                    /\ StoredAsAsked(r.ended_at, data.videoSessions[i].endedAt)
                    /\ StoredAsAsked(r.rated_at, data.videoSessions[i].ratedAt)
           /\ \A i \in 1..Len(data.browserSessions) :
                 \A r \in RowsWithId(store'.browser_sessions, u, data.browserSessions[i].id)
                          \ DOMAIN store.browser_sessions :
                    StoredAsAsked(r.ended_at, data.browserSessions[i].endedAt)
           /\ \A i \in 1..Len(data.interventionEvents) :
                 \E r \in DOMAIN store'.intervention_events :
                    /\ CopiesIn(r, store'.intervention_events)
                         > CopiesIn(r, store.intervention_events)
                    /\ StoredAsAsked(r.response_at, data.interventionEvents[i].responseAt)
           /\ \A r \in DOMAIN store'.intervention_events :
                 CopiesIn(r, store'.intervention_events)
                   > CopiesIn(r, store.intervention_events)
                 => \E i \in 1..Len(data.interventionEvents) :
                       StoredAsAsked(r.response_at, data.interventionEvents[i].responseAt)]_vars

\* A request has stored a video session whose endedAt was 0 and whose ratedAt
\* was a time before the epoch: the row has no end time and has a rating
\* time, and the intervention event of the request has no response time.
C37_Witness ==
  /\ last.resp.status_code = 200
  /\ last.resp.syncedCounts["videoSessions"] = 1
  /\ last.data.videoSessions[1].endedAt = Some(0)
  /\ last.data.videoSessions[1].ratedAt = Some(-1)
  /\ \E r \in RowsWithId(store.video_sessions, last.user, last.data.videoSessions[1].id) :
        r.ended_at = None /\ r.rated_at = Some([us |-> -1000])
  /\ \E r \in DOMAIN store.intervention_events : r.response_at = None

\* C38: the effectiveness_rate that get_intervention_events returns is a
\* percentage: at least 0 and at most 100 (1000 tenths), whatever rows are
\* stored, rows of users who left without a response included.
C38_EffectivenessRateIsAPercentage ==
  read.endpoint = "get_intervention_events" /\ read.status_code = 200
  => read.effectiveness_rate >= 0 /\ read.effectiveness_rate <= 1000

\* C39: a client that posts the videoSessions, browserSessions and
\* dailyStats of its restore back to sync_all, with no sync in between, is
\* answered with success and no row is inserted: the sessions are skipped
\* and each day's statistics keep their values.
C39_RestoredDataInsertsNoRow ==
  [][/\ read.endpoint = "restore_data"
     /\ read.after = ncalls
     /\ ncalls' = ncalls + 1
     /\ last'.user = read.user
     /\ last'.data = read.data
     => /\ last'.resp.status_code = 200
        /\ store'.video_sessions = store.video_sessions
        /\ store'.browser_sessions = store.browser_sessions
        /\ last'.resp.syncedCounts["videoSessions"] = 0
        /\ last'.resp.syncedCounts["browserSessions"] = 0
        /\ RowCount(store'.daily_stats) = RowCount(store.daily_stats)
        /\ \A r \in DOMAIN store.daily_stats :
              \E new \in DOMAIN store'.daily_stats :
                 /\ new.user_id = r.user_id /\ new.date = r.date
                 /\ new.total_seconds = r.total_seconds
                 /\ new.video_count = r.video_count]_vars

\* C40: for every input string, the empty string and the strings that are
\* empty once cleaned included, sanitize_url returns null or a string that
\* starts with http:// or https://.
C40_SanitizeUrlIsNullOrHttp ==
  read.endpoint = "sanitize_url" /\ read.value # None
    => IsHttpOrNull(read.result)

====
